---- MODULE Spec2Model ----
(***************************************************************************)
(* A model of TypeSafeEmitter (src/src/index.ts).                          *)
(*                                                                         *)
(* Event names are sequences of one-character strings, so that trim,       *)
(* includes, split, startsWith and endsWith are computed as JavaScript     *)
(* computes them.  A Set or Map of the program is the list of its entries  *)
(* in insertion order; an entry deleted while a forEach is running leaves  *)
(* a hole (Tomb), exactly as in ECMAScript's SetData / MapData lists, and  *)
(* the holes are dropped when no forEach is running any more.              *)
(***************************************************************************)
EXTENDS Integers, Sequences, FiniteSets, TLC

VARIABLES
    throwOnNoListeners, \* the constructor option
    handlers,           \* exact registry: a function, key -> list of handlers
    starHandlers,       \* universal registry: list of handlers
    wildcardHandlers,   \* pattern registry: list of [pattern, set] entries
    wrappers,           \* the wrappedHandler closures made by once, in order
    stack,              \* call stack: emit/emitAsync passes and running handlers
    pending,            \* handler promises not settled yet
    joins,              \* the promises returned by emitAsync
    pre,                \* the registries when the current top-level call began
    trace,              \* what happened since the current top-level call began
    last                \* the current or latest top-level call and its outcome

vars == <<throwOnNoListeners, handlers, starHandlers, wildcardHandlers, wrappers,
          stack, pending, joins, pre, trace, last>>

----------------------------------------------------------------------------
(* Bounds of the model. *)

MaxPatLen == 4      \* longest generated pattern
MaxNameLen == 3     \* longest generated event name
MaxSubs == 3        \* registrations alive at the same time
MaxMatchSubs == 1   \* the same, in the study of the matching rules
MaxOnceSubs == 2    \* the same, in the study of one-shot subscriptions
MaxWrappers == 1    \* calls of once in one behaviour
MaxDepth == 4       \* frames on the call stack
MaxNested == 1      \* calls on the emitter made by handlers during one top-level call
MaxTrace == 3       \* events recorded for one top-level call
MaxPending == 1     \* handler promises pending at the same time
MaxTwice == 2       \* calls of once, in the study of repeated one-shot subscriptions
MaxInPass == 2      \* calls of off and clear made by handlers during one top-level call

----------------------------------------------------------------------------
(* Strings. *)

Star == "*"
Space == " "

RECURSIVE SeqsUpTo(_, _)
SeqsUpTo(S, n) ==
    IF n = 0 THEN {<<>>}
    ELSE LET shorter == SeqsUpTo(S, n - 1)
         IN  shorter \cup {Append(s, c) : s \in shorter, c \in S}

\* String.prototype.trim: leading and trailing white space removed.
RECURSIVE TrimLeft(_)
TrimLeft(s) == IF s # <<>> /\ Head(s) = Space THEN TrimLeft(Tail(s)) ELSE s

RECURSIVE TrimRight(_)
TrimRight(s) ==
    IF s # <<>> /\ s[Len(s)] = Space THEN TrimRight(SubSeq(s, 1, Len(s) - 1)) ELSE s

Trim(s) == TrimRight(TrimLeft(s))

StartsWith(s, p) == Len(p) <= Len(s) /\ SubSeq(s, 1, Len(p)) = p

EndsWith(s, p) == Len(p) <= Len(s) /\ SubSeq(s, Len(s) - Len(p) + 1, Len(s)) = p

\* String.prototype.includes.
Includes(s, p) ==
    \E i \in 0..(Len(s) - Len(p)) : SubSeq(s, i + 1, i + Len(p)) = p

HasStar(s) == Includes(s, <<Star>>)

\* String.prototype.split('*'): the fragments between the stars, k + 1 of them
\* for k stars.
RECURSIVE SplitAcc(_, _, _)
SplitAcc(s, cur, acc) ==
    IF s = <<>> THEN Append(acc, cur)
    ELSE IF Head(s) = Star THEN SplitAcc(Tail(s), <<>>, Append(acc, cur))
    ELSE SplitAcc(Tail(s), Append(cur, Head(s)), acc)

Split(s) == SplitAcc(s, <<>>, <<>>)

----------------------------------------------------------------------------
(* Name validation and classification. *)

NoHandler == <<"-", 1>>

\* Errors: the class, the fixed text of the message, the name quoted in the
\* message and, for an error of a handler, the handler that raised it.
NoError == [type |-> "none", text |-> "", name |-> <<>>, by |-> NoHandler]

InvalidEventNameError(text, eventName) ==
    [type |-> "InvalidEventNameError", text |-> text, name |-> eventName, by |-> NoHandler]

NoListenersError(eventName) ==
    [type |-> "NoListenersError", text |-> "No listeners for event", name |-> eventName,
     by |-> NoHandler]

HandlerError(h) == [type |-> "Error", text |-> "handler", name |-> <<>>, by |-> h]

\* The validation with the wildcard test left out.
validateEventNameAnyStar(eventName, allowWildcards) ==
    IF Trim(eventName) = <<>>
    THEN InvalidEventNameError("Event name cannot be an empty string.", <<>>)
    ELSE NoError

\* The validation that refuses wildcards whoever calls it.
validateEventNameNoStar(eventName, allowWildcards) ==
    IF Trim(eventName) = <<>>
    THEN InvalidEventNameError("Event name cannot be an empty string.", <<>>)
    ELSE IF HasStar(eventName)
    THEN InvalidEventNameError("Wildcard pattern is not allowed for this operation.", eventName)
    ELSE NoError

\* validateEventName: the error it throws, or NoError.
validateEventName(eventName, allowWildcards) ==
    IF Trim(eventName) = <<>>
    THEN InvalidEventNameError("Event name cannot be an empty string.", <<>>)
    ELSE IF ~allowWildcards /\ HasStar(eventName)
    THEN InvalidEventNameError("Wildcard pattern is not allowed for this operation.", eventName)
    ELSE NoError

\* The registry that on, off and once route a name to.
Route(eventName) ==
    IF eventName = <<Star>> THEN "star"
    ELSE IF HasStar(eventName) THEN "pattern"
    ELSE "exact"

\* The length test left out: a prefix and a suffix that overlap in the name match.
MatchesOverlapping(eventNameStr, parts) ==
    /\ StartsWith(eventNameStr, parts[1])
    /\ EndsWith(eventNameStr, parts[2])

MatchesLastShape(eventNameStr, parts) ==
    /\ StartsWith(eventNameStr, parts[1])
    /\ EndsWith(eventNameStr, parts[2])
    /\ Len(eventNameStr) >= Len(parts[1]) + Len(parts[2])

\* The tests of the two one-sided shapes exchanged.
MatchesSwapped(pattern, eventNameStr) ==
    LET parts == Split(pattern)
    IN  IF Len(parts) = 1 THEN StartsWith(eventNameStr, parts[1])
        ELSE IF Len(parts) = 2 THEN
            IF StartsWith(pattern, <<Star>>) /\ EndsWith(pattern, <<Star>>) THEN
                IF parts[2] = <<>> THEN TRUE ELSE Includes(eventNameStr, parts[2])
            ELSE IF StartsWith(pattern, <<Star>>) THEN StartsWith(eventNameStr, parts[2])
            ELSE IF EndsWith(pattern, <<Star>>) THEN EndsWith(eventNameStr, parts[1])
            ELSE MatchesLastShape(eventNameStr, parts)
        ELSE FALSE

\* The match that takes the first and the last fragment of a pattern with
\* several stars.
MatchesFirstLast(pattern, eventNameStr) ==
    LET parts == Split(pattern)
    IN  IF Len(parts) = 1 THEN StartsWith(eventNameStr, parts[1])
        ELSE IF Len(parts) = 2 THEN
            IF StartsWith(pattern, <<Star>>) /\ EndsWith(pattern, <<Star>>) THEN
                IF parts[2] = <<>> THEN TRUE ELSE Includes(eventNameStr, parts[2])
            ELSE IF StartsWith(pattern, <<Star>>) THEN EndsWith(eventNameStr, parts[2])
            ELSE IF EndsWith(pattern, <<Star>>) THEN StartsWith(eventNameStr, parts[1])
            ELSE MatchesLastShape(eventNameStr, parts)
        ELSE StartsWith(eventNameStr, parts[1]) /\ EndsWith(eventNameStr, parts[Len(parts)])

\* The match computed for each entry of wildcardHandlers by emit and emitAsync.
Matches(pattern, eventNameStr) ==
    LET parts == Split(pattern)
    IN  IF Len(parts) = 1 THEN StartsWith(eventNameStr, parts[1])
        ELSE IF Len(parts) = 2 THEN
            IF StartsWith(pattern, <<Star>>) /\ EndsWith(pattern, <<Star>>) THEN
                IF parts[2] = <<>> THEN TRUE ELSE Includes(eventNameStr, parts[2])
            ELSE IF StartsWith(pattern, <<Star>>) THEN EndsWith(eventNameStr, parts[2])
            ELSE IF EndsWith(pattern, <<Star>>) THEN StartsWith(eventNameStr, parts[1])
            ELSE MatchesLastShape(eventNameStr, parts)
        ELSE FALSE

----------------------------------------------------------------------------
(* Handler identities, sets and maps. *)

UserHandlers == {<<"h", 1>>, <<"h", 2>>}
\* One closure for every call of once.
WrapperShared(k) == <<"w", 1>>

Wrapper(k) == <<"w", k>>
IsWrapper(f) == f[1] = "w"
Tomb == <<"-", 0>>
NoEntry == [pattern |-> <<>>, set |-> <<>>]

Payloads == {"p1", "p2"}

RECURSIVE Live(_)
Live(list) ==
    IF list = <<>> THEN <<>>
    ELSE IF Head(list) = Tomb THEN Live(Tail(list))
    ELSE <<Head(list)>> \o Live(Tail(list))

Elems(list) == {list[i] : i \in 1..Len(list)} \ {Tomb}

Size(list) == Cardinality(Elems(list))

\* The push of an array: an entry that is present is added again.
SetAddAgain(list, f) == Append(list, f)

\* A collection that puts a new entry first.
SetAddFirst(list, f) == IF f \in Elems(list) THEN list ELSE <<f>> \o list

\* Set.prototype.add
SetAdd(list, f) == IF f \in Elems(list) THEN list ELSE Append(list, f)

\* A deletion that leaves the entry in place.
SetDeleteNothing(list, f) == list

\* The removal that closes the gap at once, under a running forEach too.
SetDeleteShift(list, f) == SelectSeq(list, LAMBDA x : x # f)

\* The removal by splice(indexOf(f), 1) of an array: the last entry goes when f
\* is absent.
SetDeleteSplice(list, f) ==
    LET at == {i \in 1..Len(list) : list[i] # Tomb}
        m == IF f \in Elems(list) \/ at = {} THEN 0
             ELSE CHOOSE i \in at : \A j \in at : j <= i
    IN  [i \in 1..Len(list) |-> IF list[i] = f \/ i = m THEN Tomb ELSE list[i]]

\* Set.prototype.delete
SetDelete(list, f) == [i \in 1..Len(list) |-> IF list[i] = f THEN Tomb ELSE list[i]]

\* Set.prototype.clear and Map.prototype.clear: every entry becomes a hole.
SetClear(list) == [i \in 1..Len(list) |-> Tomb]
MapClear(map) == [i \in 1..Len(map) |-> NoEntry]

\* A forEach that stops after the first entry it has called.
NextLiveFirstOnly(list, idx) ==
    LET later == {i \in 1..Len(list) : list[i] # Tomb}
    IN  IF idx # 0 \/ later = {} THEN 0 ELSE CHOOSE i \in later : \A j \in later : i <= j

\* The first position after idx that holds an entry, or 0: the next step of forEach.
NextLive(list, idx) ==
    LET later == {i \in (idx + 1)..Len(list) : list[i] # Tomb}
    IN  IF later = {} THEN 0 ELSE CHOOSE i \in later : \A j \in later : i <= j

NextEntry(map, idx) ==
    LET later == {i \in (idx + 1)..Len(map) : map[i] # NoEntry}
    IN  IF later = {} THEN 0 ELSE CHOOSE i \in later : \A j \in later : i <= j

\* Map.prototype.get / has: the position of the entry of a pattern, or 0.
MapPos(map, pattern) ==
    LET at == {i \in 1..Len(map) : map[i] # NoEntry /\ map[i].pattern = pattern}
    IN  IF at = {} THEN 0 ELSE CHOOSE i \in at : TRUE

MapHas(map, pattern) == MapPos(map, pattern) # 0

MapGet(map, pattern) == map[MapPos(map, pattern)].set

RECURSIVE LiveEntries(_)
LiveEntries(map) ==
    IF map = <<>> THEN <<>>
    ELSE IF Head(map) = NoEntry THEN LiveEntries(Tail(map))
    ELSE <<[pattern |-> Head(map).pattern, set |-> Live(Head(map).set)]>>
         \o LiveEntries(Tail(map))

----------------------------------------------------------------------------
(* The call stack.  A frame is a running emit or emitAsync (its position in *)
(* the three forEach loops) or a running user handler.                      *)

EmitFrame(kind, eventName, data) ==
    [kind |-> kind, name |-> eventName, data |-> data, pc |-> "exact",
     idx |-> 0, midx |-> 0, pat |-> <<>>, found |-> FALSE, det |-> FALSE, snap |-> <<>>,
     proms |-> <<>>, fn |-> NoHandler, h |-> NoHandler]

HandlerFrame(fn, h, eventName, data) ==
    [kind |-> "handler", name |-> eventName, data |-> data, pc |-> "body",
     idx |-> 0, midx |-> 0, found |-> FALSE, det |-> FALSE, snap |-> <<>>,
     proms |-> <<>>, fn |-> fn, h |-> h]

\* A forEach over a Set keeps the Set object it was called on.  When the
\* registry drops that object (delete this.handlers[k], this.handlers = {},
\* Map.delete, Map.clear) the running loop goes on over the dropped object,
\* which nothing can change any more: the frame keeps its content.
DetachExact(stk, key, content) ==
    [i \in 1..Len(stk) |->
        IF stk[i].pc = "exactIter" /\ stk[i].name = key /\ ~stk[i].det
        THEN [stk[i] EXCEPT !.det = TRUE, !.snap = content]
        ELSE stk[i]]

DetachAllExact(stk, hs) ==
    [i \in 1..Len(stk) |->
        IF stk[i].pc = "exactIter" /\ ~stk[i].det
        THEN [stk[i] EXCEPT !.det = TRUE, !.snap = hs[stk[i].name]]
        ELSE stk[i]]

DetachPattern(stk, pos, content) ==
    [i \in 1..Len(stk) |->
        IF stk[i].pc = "patIter" /\ stk[i].midx = pos /\ ~stk[i].det
        THEN [stk[i] EXCEPT !.det = TRUE, !.snap = content]
        ELSE stk[i]]

DetachAllPatterns(stk, map) ==
    [i \in 1..Len(stk) |->
        IF stk[i].pc = "patIter" /\ ~stk[i].det
        THEN [stk[i] EXCEPT !.det = TRUE, !.snap = map[stk[i].midx].set]
        ELSE stk[i]]

----------------------------------------------------------------------------
(* The operations are written as functions of the record X of everything   *)
(* a call can change: the emitter's registries, the closures made by once, *)
(* the call stack, the promises returned by emitAsync and the record of    *)
(* what the current top-level call did.                                    *)

Fields == [handlers |-> handlers, starHandlers |-> starHandlers,
           wildcardHandlers |-> wildcardHandlers, wrappers |-> wrappers,
           stack |-> stack, joins |-> joins, trace |-> trace, last |-> last]

RemoveKey(hs, key) == [k \in (DOMAIN hs) \ {key} |-> hs[k]]

PutKey(hs, key, list) == [k \in (DOMAIN hs) \cup {key} |-> IF k = key THEN list ELSE hs[k]]

EmptyObject == [k \in {} |-> <<>>]

\* on, after validation (src/src/index.ts 72-94).
onAdd(R, eventName, f) ==
    IF Route(eventName) = "star" THEN
        [R EXCEPT !.starHandlers = SetAdd(@, f)]
    ELSE IF Route(eventName) = "pattern" THEN
        LET map == IF MapHas(R.wildcardHandlers, eventName) THEN R.wildcardHandlers
                   ELSE Append(R.wildcardHandlers, [pattern |-> eventName, set |-> <<>>])
            pos == MapPos(map, eventName)
        IN  [R EXCEPT !.wildcardHandlers = [map EXCEPT ![pos].set = SetAdd(@, f)]]
    ELSE
        LET hs == IF eventName \in DOMAIN R.handlers THEN R.handlers
                  ELSE PutKey(R.handlers, eventName, <<>>)
        IN  [R EXCEPT !.handlers = [hs EXCEPT ![eventName] = SetAdd(@, f)]]

\* clear(eventName) that empties the Set of the name before it drops it.
clearNameInPlace(R, eventName) ==
    IF Route(eventName) = "star" THEN
        [R EXCEPT !.starHandlers = SetClear(@)]
    ELSE IF Route(eventName) = "pattern" THEN
        IF MapHas(R.wildcardHandlers, eventName) THEN
            LET pos == MapPos(R.wildcardHandlers, eventName)
            IN  [R EXCEPT !.wildcardHandlers = [@ EXCEPT ![pos] = NoEntry],
                          !.stack = DetachPattern(@, pos, SetClear(R.wildcardHandlers[pos].set))]
        ELSE R
    ELSE
        IF eventName \in DOMAIN R.handlers THEN
            [R EXCEPT !.handlers = RemoveKey(@, eventName),
                      !.stack = DetachExact(@, eventName, SetClear(R.handlers[eventName]))]
        ELSE R

\* clear(pattern) that empties the whole Map of patterns.
clearNameAllPatterns(R, eventName) ==
    IF Route(eventName) = "star" THEN [R EXCEPT !.starHandlers = SetClear(@)]
    ELSE IF Route(eventName) = "pattern" THEN [R EXCEPT !.wildcardHandlers = MapClear(@)]
    ELSE IF eventName \in DOMAIN R.handlers THEN [R EXCEPT !.handlers = RemoveKey(@, eventName)]
    ELSE R

\* clear(eventName), after validation (src/src/index.ts 351-358).
clearName(R, eventName) ==
    IF Route(eventName) = "star" THEN
        [R EXCEPT !.starHandlers = SetClear(@)]
    ELSE IF Route(eventName) = "pattern" THEN
        IF MapHas(R.wildcardHandlers, eventName) THEN
            LET pos == MapPos(R.wildcardHandlers, eventName)
            IN  [R EXCEPT !.wildcardHandlers = [@ EXCEPT ![pos] = NoEntry],
                          !.stack = DetachPattern(@, pos, R.wildcardHandlers[pos].set)]
        ELSE R
    ELSE
        IF eventName \in DOMAIN R.handlers THEN
            [R EXCEPT !.handlers = RemoveKey(@, eventName),
                      !.stack = DetachExact(@, eventName, R.handlers[eventName])]
        ELSE R

\* off that removes nothing.
offRemovesNothing(R, eventName, f) == R

\* off that leaves the Set it has emptied in its registry.
offLeavesEmptySet(R, eventName, f) ==
    IF Route(eventName) = "star" THEN
        [R EXCEPT !.starHandlers = SetDelete(@, f)]
    ELSE IF Route(eventName) = "pattern" THEN
        IF MapHas(R.wildcardHandlers, eventName)
        THEN [R EXCEPT !.wildcardHandlers[MapPos(R.wildcardHandlers, eventName)].set =
                           SetDelete(@, f)]
        ELSE R
    ELSE
        IF eventName \in DOMAIN R.handlers
        THEN [R EXCEPT !.handlers[eventName] = SetDelete(@, f)]
        ELSE R

\* off that drops the whole set of the name instead of one handler.
offDropsSet(R, eventName, f) == clearName(R, eventName)

\* off, after validation (src/src/index.ts 113-136).
offRemove(R, eventName, f) ==
    IF Route(eventName) = "star" THEN
        [R EXCEPT !.starHandlers = SetDelete(@, f)]
    ELSE IF Route(eventName) = "pattern" THEN
        IF MapHas(R.wildcardHandlers, eventName) THEN
            LET pos == MapPos(R.wildcardHandlers, eventName)
                set == SetDelete(R.wildcardHandlers[pos].set, f)
            IN  IF Size(set) = 0
                THEN [R EXCEPT !.wildcardHandlers = [@ EXCEPT ![pos] = NoEntry],
                               !.stack = DetachPattern(@, pos, set)]
                ELSE [R EXCEPT !.wildcardHandlers = [@ EXCEPT ![pos].set = set]]
        ELSE R
    ELSE
        IF eventName \in DOMAIN R.handlers THEN
            LET set == SetDelete(R.handlers[eventName], f)
            IN  IF Size(set) = 0
                THEN [R EXCEPT !.handlers = RemoveKey(@, eventName),
                               !.stack = DetachExact(@, eventName, set)]
                ELSE [R EXCEPT !.handlers = [@ EXCEPT ![eventName] = set]]
        ELSE R

\* clear() that forgets the Map of patterns.
clearAllButPatterns(R) ==
    [R EXCEPT !.handlers = EmptyObject,
              !.starHandlers = SetClear(@),
              !.stack = DetachAllExact(@, R.handlers)]

\* clear() (src/src/index.ts 359-363).
clearAll(R) ==
    [R EXCEPT !.handlers = EmptyObject,
              !.starHandlers = SetClear(@),
              !.wildcardHandlers = MapClear(@),
              !.stack = DetachAllPatterns(DetachAllExact(@, R.handlers), R.wildcardHandlers)]

\* Once no forEach is running, the holes of the lists are unobservable.
Compact(R) ==
    IF R.stack # <<>> THEN R
    ELSE [R EXCEPT !.handlers = [k \in DOMAIN @ |-> Live(@[k])],
                   !.starHandlers = Live(@),
                   !.wildcardHandlers = LiveEntries(@)]

----------------------------------------------------------------------------
(* Bookkeeping shared by the actions. *)

Top == stack[Len(stack)]

Snapshot == [handlers |-> handlers, starHandlers |-> starHandlers,
             wildcardHandlers |-> wildcardHandlers]

Registrations(R) ==
    UNION {{<<"exact", k, f>> : f \in Elems(R.handlers[k])} : k \in DOMAIN R.handlers}
    \cup {<<"star", <<Star>>, f>> : f \in Elems(R.starHandlers)}
    \cup UNION {{<<"pattern", R.wildcardHandlers[i].pattern, f>> :
                    f \in Elems(R.wildcardHandlers[i].set)} :
                i \in 1..Len(R.wildcardHandlers)}

\* Who is calling the emitter: the host program, between two runs of the event
\* loop ("top"), or a handler that is running inside a pass ("nested").
Caller ==
    IF stack = <<>> THEN "top"
    ELSE IF Top.kind = "handler" /\ Len(trace) < MaxTrace THEN "nested"
    ELSE "none"

OpEvent(op, eventName, f) ==
    [ev |-> op, lvl |-> Len(stack), reg |-> "", key |-> eventName, fn |-> f,
     h |-> NoHandler, arity |-> 0, name |-> <<>>, data |-> ""]

CallEvent(lvl, reg, key, f, h, arity, eventName, data) ==
    [ev |-> "call", lvl |-> lvl, reg |-> reg, key |-> key, fn |-> f,
     h |-> h, arity |-> arity, name |-> eventName, data |-> data]

Call(op, eventName, f, data, outcome, err) ==
    [op |-> op, name |-> eventName, fn |-> f, data |-> data, outcome |-> outcome, err |-> err]

\* Settled emitAsync promises of earlier top-level calls are forgotten.
RECURSIVE PendingJoins(_)
PendingJoins(js) ==
    IF js = <<>> THEN <<>>
    ELSE IF Head(js).state = "pending" THEN <<Head(js)>> \o PendingJoins(Tail(js))
    ELSE PendingJoins(Tail(js))

\* A top-level call starts a new record; a nested call is an event of the
\* top-level call it happens in.
Noted(X, op, eventName, f, data, outcome, err) ==
    IF X.stack = <<>>
    THEN [X EXCEPT !.trace = <<>>,
                   !.last = Call(op, eventName, f, data, outcome, err),
                   !.joins = PendingJoins(@)]
    ELSE [X EXCEPT !.trace = Append(@, OpEvent(op, eventName, f))]

\* A call that drops every subscription when it ends.
EndedCleared(X, depth, outcome, err) ==
    IF depth = 1 THEN [clearAll(X) EXCEPT !.last.outcome = outcome, !.last.err = err] ELSE X

\* The exception or the return of a call that ends: seen by the host program
\* when the call was a top-level one, by the calling handler otherwise (which
\* may catch it: what that handler does next is its own choice).
Ended(X, depth, outcome, err) ==
    IF depth = 1 THEN [X EXCEPT !.last.outcome = outcome, !.last.err = err] ELSE X

Commit(X) ==
    LET C == Compact(X)
    IN  /\ handlers' = C.handlers
        /\ starHandlers' = C.starHandlers
        /\ wildcardHandlers' = C.wildcardHandlers
        /\ wrappers' = C.wrappers
        /\ stack' = C.stack
        /\ joins' = C.joins
        /\ trace' = C.trace
        /\ last' = C.last
        /\ pre' = IF stack = <<>> THEN Snapshot ELSE pre

Thrown(err) == IF err = NoError THEN "returned" ELSE "threw"

----------------------------------------------------------------------------
(* Construction. *)

Init ==
    /\ throwOnNoListeners \in BOOLEAN
    /\ handlers = EmptyObject
    /\ starHandlers = <<>>
    /\ wildcardHandlers = <<>>
    /\ wrappers = <<>>
    /\ stack = <<>>
    /\ pending = {}
    /\ joins = <<>>
    /\ pre = [handlers |-> EmptyObject, starHandlers |-> <<>>, wildcardHandlers |-> <<>>]
    /\ trace = <<>>
    /\ last = Call("new", <<>>, NoHandler, "", "returned", NoError)

----------------------------------------------------------------------------
(* on, off, once, clear and the unsubscribe callbacks. *)

on(eventName, handler) ==
    /\ Caller # "none"
    /\ LET err == validateEventName(eventName, TRUE)
           X == Noted(Fields, "on", eventName, handler, "", Thrown(err), err)
           Y == IF err = NoError THEN onAdd(X, eventName, handler) ELSE X
       IN  /\ Cardinality(Registrations(Y)) <= MaxSubs
           /\ Commit(Y)
    /\ UNCHANGED <<throwOnNoListeners, pending>>

\* offed is bookkeeping: off was called with the name and the handler that this
\* closure's once was called with, before the closure had fired.
off(eventName, handler) ==
    /\ Caller # "none"
    /\ LET err == validateEventName(eventName, TRUE)
           X == Noted(Fields, "off", eventName, handler, "", Thrown(err), err)
           Y == [offRemove(X, eventName, handler) EXCEPT !.wrappers =
                    [k \in 1..Len(@) |->
                        IF @[k].name = eventName /\ @[k].h = handler /\ @[k].fired = 0
                        THEN [@[k] EXCEPT !.offed = TRUE] ELSE @[k]]]
       IN  Commit(IF err = NoError THEN Y ELSE X)
    /\ UNCHANGED <<throwOnNoListeners, pending>>

\* once makes a new wrappedHandler closure at every call and subscribes it.
\* A closure is the eventName and the handler it captured; fired counts its
\* calls of that handler (see off for offed).
onceUpTo(eventName, handler, max) ==
    /\ Caller # "none"
    /\ Len(wrappers) < max
    /\ LET err == validateEventName(eventName, TRUE)
           w == Wrapper(Len(wrappers) + 1)
           X == Noted(Fields, "once", eventName, handler, "", Thrown(err), err)
           Y == IF err = NoError
                THEN [onAdd(X, eventName, w) EXCEPT !.wrappers =
                         Append(@, [name |-> eventName, h |-> handler, fired |-> 0,
                                    offed |-> FALSE])]
                ELSE X
       IN  /\ Cardinality(Registrations(Y)) <= MaxSubs
           /\ Commit(Y)
    /\ UNCHANGED <<throwOnNoListeners, pending>>

once(eventName, handler) == onceUpTo(eventName, handler, MaxWrappers)

\* The callback returned by once(eventName, h): () => this.off(eventName, wrappedHandler).
\* The callback returned by on(eventName, h) runs off(eventName, h): see off.
unsubscribe(k) ==
    /\ Caller # "none"
    /\ k \in 1..Len(wrappers)
    /\ LET eventName == wrappers[k].name
           err == validateEventName(eventName, TRUE)
           X == Noted(Fields, "unsubscribe", eventName, Wrapper(k), "", Thrown(err), err)
       IN  Commit(IF err = NoError THEN offRemove(X, eventName, Wrapper(k)) ELSE X)
    /\ UNCHANGED <<throwOnNoListeners, pending>>

clear(eventName) ==
    /\ Caller # "none"
    /\ LET err == validateEventName(eventName, TRUE)
           X == Noted(Fields, "clear", eventName, NoHandler, "", Thrown(err), err)
       IN  Commit(IF err = NoError THEN clearName(X, eventName) ELSE X)
    /\ UNCHANGED <<throwOnNoListeners, pending>>

\* clear() without an argument.
clearEverything ==
    /\ Caller # "none"
    /\ Commit(clearAll(Noted(Fields, "clearAll", <<>>, NoHandler, "", "returned", NoError)))
    /\ UNCHANGED <<throwOnNoListeners, pending>>

----------------------------------------------------------------------------
(* emit and emitAsync.  Both run the same three loops; a frame's pc is the  *)
(* place in the code: "exact" (the lookup of this.handlers[eventName]),     *)
(* "exactIter", "star", "starIter", "pattern" (the forEach over the Map),   *)
(* "patIter" (the forEach over the Set of one matching pattern), "finish".  *)

InIter(F) == F.pc \in {"exactIter", "starIter", "patIter"}

\* The Set a running forEach iterates.
CurrentList(X, F) ==
    IF F.det THEN F.snap
    ELSE IF F.pc = "exactIter" THEN X.handlers[F.name]
    ELSE IF F.pc = "starIter" THEN X.starHandlers
    ELSE X.wildcardHandlers[F.midx].set

\* The size test off by one: a single exact handler is not run.
ExactFiresSeveral(X, F) == F.name \in DOMAIN X.handlers /\ Size(X.handlers[F.name]) > 1

\* const exactHandlers = this.handlers[eventName];
\* if (exactHandlers && exactHandlers.size > 0)
ExactFires(X, F) == F.name \in DOMAIN X.handlers /\ Size(X.handlers[F.name]) > 0

\* Universal handlers that emitAsync leaves out.
StarFiresInEmit(X, F) == F.kind = "emit" /\ Size(X.starHandlers) > 0

\* Universal handlers that run only when no exact handler did.
StarFiresInstead(X, F) == ~F.found /\ Size(X.starHandlers) > 0

\* if (this.starHandlers.size > 0)
StarFires(X, F) == Size(X.starHandlers) > 0

\* The pass runs on from frame F to its next call of a handler or to its end:
\* the tests and loop steps in between call nobody.
RECURSIVE Advance(_, _)
Advance(X, F) ==
    IF F.pc = "exact" THEN
        IF ExactFires(X, F)
        THEN Advance(X, [F EXCEPT !.pc = "exactIter", !.idx = 0, !.det = FALSE, !.snap = <<>>])
        ELSE Advance(X, [F EXCEPT !.pc = "star"])
    ELSE IF InIter(F) THEN
        IF NextLive(CurrentList(X, F), F.idx) # 0 THEN F
        ELSE \* the forEach is over: listenersFound = true
             Advance(X, [F EXCEPT !.found = TRUE,
                                  !.pc = IF F.pc = "exactIter" THEN "star" ELSE "pattern",
                                  !.midx = IF F.pc = "patIter" THEN @ ELSE 0,
                                  !.idx = 0, !.det = FALSE, !.snap = <<>>])
    ELSE IF F.pc = "star" THEN
        IF StarFires(X, F)
        THEN Advance(X, [F EXCEPT !.pc = "starIter", !.idx = 0, !.det = FALSE, !.snap = <<>>])
        ELSE Advance(X, [F EXCEPT !.pc = "pattern", !.midx = 0])
    ELSE IF F.pc = "pattern" THEN
        \* this.wildcardHandlers.forEach((handlers, pattern) => ...
        \*     if (matches && handlers.size > 0)
        LET j == NextEntry(X.wildcardHandlers, F.midx)
        IN  IF j = 0 THEN [F EXCEPT !.pc = "finish"]
            ELSE IF /\ Matches(X.wildcardHandlers[j].pattern, F.name)
                    /\ Size(X.wildcardHandlers[j].set) > 0
            THEN Advance(X, [F EXCEPT !.pc = "patIter", !.midx = j, !.idx = 0,
                                      !.pat = X.wildcardHandlers[j].pattern,
                                      !.det = FALSE, !.snap = <<>>])
            ELSE Advance(X, [F EXCEPT !.midx = j])
    ELSE F

\* once's wrappedHandler passes (nameOrData, data) on for '*' and patterns and
\* (nameOrData) otherwise.
WildcardName(eventName) == eventName = <<Star>> \/ HasStar(eventName)

\* The first statement of wrappedHandler, called with the handler given to once.
UnhookOriginal(X, f) == offRemove(X, X.wrappers[f[2]].name, X.wrappers[f[2]].h)

\* wrappedHandler without its first statement.
UnhookNever(X, f) == X

\* The first statement of wrappedHandler: this.off(eventName, wrappedHandler).
Unhook(X, f) == offRemove(X, X.wrappers[f[2]].name, f)

\* A forEach over a Set calls its next entry: handler(data) for an exact name,
\* handler(eventNameStr, data) otherwise.  A wrappedHandler of once first runs
\* this.off(eventName, wrappedHandler) and then calls the user's handler.
Invoked(X, F) ==
    LET n == Len(X.stack)
        j == NextLive(CurrentList(X, F), F.idx)
        f == CurrentList(X, F)[j]
        reg == IF F.pc = "exactIter" THEN "exact"
               ELSE IF F.pc = "starIter" THEN "star" ELSE "pattern"
        key == IF reg = "exact" THEN F.name
               ELSE IF reg = "star" THEN <<Star>> ELSE F.pat
        X0 == [X EXCEPT !.stack[n] = [F EXCEPT !.idx = j]]
        X1 == IF IsWrapper(f)
              THEN [Unhook(X0, f) EXCEPT
                       !.wrappers[f[2]].fired = @ + 1]
              ELSE X0
        h == IF IsWrapper(f) THEN X.wrappers[f[2]].h ELSE f
        arity == IF IsWrapper(f)
                 THEN (IF WildcardName(X.wrappers[f[2]].name) THEN 2 ELSE 1)
                 ELSE (IF reg = "exact" THEN 1 ELSE 2)
        eventName == IF arity = 2 THEN F.name ELSE <<>>
    IN  [X1 EXCEPT !.stack = Append(@, HandlerFrame(f, h, eventName, F.data)),
                   !.trace = Append(@, CallEvent(n, reg, key, f, h, arity, eventName, F.data))]

Unit(st, id, err) == [st |-> st, id |-> id, err |-> err]

\* The promise returned by an emitAsync call of the host program.
Join(units, state, err) == [units |-> units, state |-> state, err |-> err]

FirstRejected(units) ==
    LET at == {i \in 1..Len(units) : units[i].st = "rejected"}
    IN  IF at = {} THEN 0 ELSE CHOOSE i \in at : \A j \in at : i <= j

\* The first promise that a one-shot closure was still awaiting to reject.
FirstLate(units) ==
    LET at == {i \in 1..Len(units) : units[i].st = "late"}
    IN  IF at = {} THEN 0 ELSE CHOOSE i \in at : \A j \in at : i <= j

\* Promise.all that keeps the last rejection it sees.
PromiseAllLastFailure(units) ==
    LET at == {i \in 1..Len(units) : units[i].st \in {"rejected", "late"}}
    IN  IF at # {}
        THEN Join(units, "rejected", units[CHOOSE i \in at : \A j \in at : j <= i].err)
        ELSE IF \A i \in 1..Len(units) : units[i].st = "fulfilled"
        THEN Join(units, "resolved", NoError)
        ELSE Join(units, "pending", NoError)

\* Promise.all that does not wait for the promises that are pending.
PromiseAllNoWait(units) ==
    IF FirstRejected(units) # 0
    THEN Join(units, "rejected", units[FirstRejected(units)].err)
    ELSE Join(units, "resolved", NoError)

\* Promise.all that waits for every promise before it rejects.
PromiseAllSettled(units) ==
    IF \E i \in 1..Len(units) : units[i].st = "pending"
    THEN Join(units, "pending", NoError)
    ELSE IF FirstRejected(units) # 0
    THEN Join(units, "rejected", units[FirstRejected(units)].err)
    ELSE Join(units, "resolved", NoError)

\* Promise.all(promises): rejected with the first rejection it sees, fulfilled
\* when every promise is fulfilled, pending otherwise.  The reactions to the
\* promises that are rejected when Promise.all is called run in the order of
\* the array, and before those to the promises that reject afterwards.
PromiseAll(units) ==
    IF FirstRejected(units) # 0
    THEN Join(units, "rejected", units[FirstRejected(units)].err)
    ELSE IF FirstLate(units) # 0
    THEN Join(units, "rejected", units[FirstLate(units)].err)
    ELSE IF \A i \in 1..Len(units) : units[i].st = "fulfilled"
    THEN Join(units, "resolved", NoError)
    ELSE Join(units, "pending", NoError)

\* The no-listeners test left out.
NoListenersNever(F) == FALSE

\* The no-listeners test without the option.
NoListenersAlways(F) == ~F.found

\* if (!listenersFound && this.throwOnNoListeners)
NoListeners(F) == ~F.found /\ throwOnNoListeners

\* The end of the call.  The promise of an emitAsync made by a handler goes to
\* that handler; the model follows the promises of the host program's calls.
Finished(X, F) ==
    LET n == Len(X.stack)
        err == IF NoListeners(F) THEN NoListenersError(F.name) ELSE NoError
        Y == [X EXCEPT !.stack = SubSeq(@, 1, n - 1)]
    IN  IF F.kind = "emit" THEN Ended(Y, n, Thrown(err), err)
        ELSE IF n # 1 THEN Y
        ELSE Ended([Y EXCEPT !.joins = Append(@, IF NoListeners(F)
                                                THEN Join(F.proms, "rejected", err)
                                                ELSE PromiseAll(F.proms))],
                   n, "promise", NoError)

\* The pass on top of the stack runs until it calls a handler or ends.
Run(X) ==
    LET F == Advance(X, X.stack[Len(X.stack)])
    IN  IF F.pc = "finish" THEN Finished(X, F) ELSE Invoked(X, F)

\* emitAsync without the async keyword.
IsAsyncNever(kind) == FALSE

\* async emitAsync(...): what the body throws rejects the promise it returns.
IsAsync(kind) == kind = "emitAsync"

\* emit throws the validation error; emitAsync, an async function, returns a
\* rejected promise instead.
emitStart(kind, eventName, data) ==
    /\ Caller # "none"
    /\ LET err == validateEventName(eventName, FALSE)
           X == Noted(Fields, kind, eventName, NoHandler, data, "running", NoError)
           depth == Len(stack) + 1
       IN  IF err # NoError THEN
               IF ~IsAsync(kind) THEN Commit(Ended(X, depth, "threw", err))
               ELSE IF depth # 1 THEN Commit(X)
               ELSE Commit(Ended([X EXCEPT !.joins = Append(@, Join(<<>>, "rejected", err))],
                                 depth, "promise", NoError))
           ELSE
               /\ Len(stack) + 2 <= MaxDepth
               /\ LET Y == Run([X EXCEPT !.stack = Append(@, EmitFrame(kind, eventName, data))])
                  IN  /\ Len(Y.trace) <= MaxTrace
                      /\ Commit(Y)
    /\ UNCHANGED <<throwOnNoListeners, pending>>

emit(eventName, data) == emitStart("emit", eventName, data)

emitAsync(eventName, data) == emitStart("emitAsync", eventName, data)

\* The least promise identity not in use.
FreshId == CHOOSE i \in 1..(MaxPending + 1) :
               /\ i \notin {p.id : p \in pending}
               /\ \A j \in 1..(i - 1) : j \in {p.id : p \in pending}

\* What a user's handler does: it returns no promise ("return"), throws
\* ("throw") or returns a promise that is pending ("pending").
Outcomes == {"return", "throw", "pending"}

\* The same, and the handler that returns a promise that is rejected already
\* ("rejected"): an async function that throws.
FailingOutcomes == {"return", "throw", "rejected", "pending"}

\* A one-shot closure that lets the exception of its handler through.
HandedThrown(fn, outcome) ==
    IF IsWrapper(fn)
    THEN (IF outcome = "return" THEN "fulfilled"
          ELSE IF outcome = "pending" THEN "pending" ELSE "throw")
    ELSE outcome

\* A one-shot closure that is not an async function.
HandedBare(fn, outcome) == outcome

\* What the function stored in the registry hands back to the pass.
\* wrappedHandler is an async function: it always returns a promise and never
\* throws.  When the user's handler throws, that promise is rejected at once;
\* when the handler returns a promise that is rejected already, wrappedHandler
\* awaits it, and its own promise is pending when the pass receives it and is
\* rejected in the microtasks that follow ("late").
Handed(fn, outcome) ==
    IF IsWrapper(fn)
    THEN (IF outcome = "return" THEN "fulfilled"
          ELSE IF outcome = "pending" THEN "pending"
          ELSE IF outcome = "rejected" THEN "late" ELSE "rejected")
    ELSE outcome

\* A pass that catches every exception of a handler.
AbortsNever(C, res) == FALSE

\* A pass that lets every exception of a handler through.
AbortsAlways(C, res) == res = "throw"

\* emit calls handler(data) bare, so that an exception ends the forEach and the
\* emit; emitAsync calls it in a try and turns the exception into a promise.
Aborts(C, res) == C.kind = "emit" /\ res = "throw"

\* The running handler ends, and the pass that called it goes on.
handlerDone(outcome) ==
    /\ stack # <<>>
    /\ Top.kind = "handler"
    /\ outcome = "pending" => Cardinality(pending) < MaxPending
    /\ LET H == Top
           n == Len(stack)
           C == stack[n - 1]
           err == HandlerError(H.h)
           res == Handed(H.fn, outcome)
           id == IF outcome = "pending" THEN FreshId ELSE 0
           unit == IF res = "pending" THEN Unit("pending", id, NoError)
                   ELSE IF res = "fulfilled" THEN Unit("fulfilled", 0, NoError)
                   ELSE IF res = "late" THEN Unit("late", 0, err)
                   ELSE Unit("rejected", 0, err)
           X == [Fields EXCEPT !.stack = SubSeq(@, 1, n - 1)]
       IN  /\ pending' = IF outcome = "pending"
                         THEN pending \cup {[id |-> id, h |-> H.h, fn |-> H.fn]}
                         ELSE pending
           /\ IF Aborts(C, res) THEN
                  \* not caught by emit: the forEach and emit end here
                  Commit(Ended([X EXCEPT !.stack = SubSeq(@, 1, n - 2)], n - 1, "threw", err))
              ELSE IF C.kind = "emit" THEN
                  \* the value returned by the handler is dropped
                  LET Y == Run(X) IN Len(Y.trace) <= MaxTrace /\ Commit(Y)
              ELSE
                  \* emitAsync: try { result = handler(..); if (result instanceof
                  \* Promise) promises.push(result) } catch (err) { promises.push(
                  \* Promise.reject(err)) }
                  LET Y == Run(IF res = "return" THEN X
                               ELSE [X EXCEPT !.stack[n - 1].proms = Append(@, unit)])
                  IN  Len(Y.trace) <= MaxTrace /\ Commit(Y)
    /\ UNCHANGED <<throwOnNoListeners>>

\* A pending handler promise settles, in a later run of the event loop.
SettleUnits(units, id, ok, err) ==
    [i \in 1..Len(units) |->
        IF units[i].st = "pending" /\ units[i].id = id
        THEN Unit(IF ok THEN "fulfilled" ELSE "rejected", id, IF ok THEN NoError ELSE err)
        ELSE units[i]]

\* A promise of emitAsync that a rejection coming after the call does not reject.
SettleJoinDeaf(J, id, ok, err) ==
    LET units == SettleUnits(J.units, id, ok, err)
    IN  IF J.state # "pending" THEN [J EXCEPT !.units = units]
        ELSE IF units = J.units THEN J
        ELSE IF \A i \in 1..Len(units) : units[i].st # "pending"
        THEN [J EXCEPT !.units = units, !.state = "resolved"]
        ELSE [J EXCEPT !.units = units]

SettleJoin(J, id, ok, err) ==
    LET units == SettleUnits(J.units, id, ok, err)
    IN  IF J.state # "pending" THEN [J EXCEPT !.units = units]
        ELSE IF units = J.units THEN J
        ELSE IF ~ok THEN [J EXCEPT !.units = units, !.state = "rejected", !.err = err]
        ELSE IF \A i \in 1..Len(units) : units[i].st = "fulfilled"
        THEN [J EXCEPT !.units = units, !.state = "resolved"]
        ELSE [J EXCEPT !.units = units]

settle(p, ok) ==
    /\ stack = <<>>
    /\ p \in pending
    /\ pending' = pending \ {p}
    /\ joins' = [i \in 1..Len(joins) |-> SettleJoin(joins[i], p.id, ok, HandlerError(p.h))]
    /\ UNCHANGED <<throwOnNoListeners, handlers, starHandlers, wildcardHandlers, wrappers,
                   stack, pre, trace, last>>

----------------------------------------------------------------------------
(* The emitter in synchronous use: the host program calls on, off, clear   *)
(* and emit; a handler returns or throws.                                  *)

Names == {<<"a">>, <<"b">>, <<Star>>, <<"a", Star>>, <<>>, <<Space>>}

Next ==
    \/ \E n \in Names, h \in UserHandlers : stack = <<>> /\ on(n, h)
    \/ \E n \in Names, h \in UserHandlers : stack = <<>> /\ off(n, h)
    \/ \E n \in Names : stack = <<>> /\ clear(n)
    \/ stack = <<>> /\ clearEverything
    \/ \E n \in Names, d \in Payloads : stack = <<>> /\ emit(n, d)
    \/ \E o \in {"return", "throw"} : handlerDone(o)

Spec == Init /\ [][Next]_vars

----------------------------------------------------------------------------------------------------------------------------------------
(* The same, with handlers that call the emitter while they run.            *)

ReentrantNames == {<<"a">>, <<"b">>, <<Star>>, <<"a", Star>>}

NestedCalls == Cardinality({i \in 1..Len(trace) : trace[i].ev # "call"})

\* The host program calls, or a running handler while a call is left.
MayCall == stack = <<>> \/ NestedCalls < MaxNested

NextReentrant ==
    \/ \E n \in ReentrantNames, h \in UserHandlers : MayCall /\ on(n, h)
    \/ \E n \in ReentrantNames, h \in UserHandlers : MayCall /\ off(n, h)
    \/ \E n \in ReentrantNames : MayCall /\ clear(n)
    \/ MayCall /\ clearEverything
    \/ \E n \in ReentrantNames : MayCall /\ emit(n, "p1")
    \/ \E o \in {"return", "throw"} : handlerDone(o)

SpecReentrant == Init /\ [][NextReentrant]_vars

----------------------------------------------------------------------------
(* One-shot subscriptions: once and its unsubscribe callback, next to a     *)
(* handler subscribed with on; handlers that return promises and handlers   *)
(* that emit while they run.                                                *)

OnceNames == {<<"a">>, <<Star>>, <<"a", Star>>}

EmittedNames == {<<"a">>, <<"b">>}

Room == Cardinality(Registrations(Fields)) < MaxOnceSubs

NextOnce ==
    \/ \E n \in OnceNames : stack = <<>> /\ Room /\ on(n, <<"h", 1>>)
    \/ \E n \in OnceNames, h \in UserHandlers : stack = <<>> /\ off(n, h)
    \/ \E n \in OnceNames : stack = <<>> /\ Room /\ once(n, <<"h", 2>>)
    \/ \E k \in 1..MaxWrappers : stack = <<>> /\ unsubscribe(k)
    \/ \E n \in EmittedNames : MayCall /\ emit(n, "p1")
    \/ \E n \in EmittedNames : MayCall /\ emitAsync(n, "p1")
    \/ \E o \in Outcomes : handlerDone(o)
    \/ \E p \in pending, ok \in BOOLEAN : settle(p, ok)

SpecOnce == Init /\ [][NextOnce]_vars

----------------------------------------------------------------------------
(* The matching rules: one handler under a pattern, every short pattern     *)
(* against every short name.                                                *)

MatchPatterns == {s \in SeqsUpTo({"a", "b", Star}, MaxPatLen) : HasStar(s)}

MatchNames == SeqsUpTo({"a", "b"}, MaxNameLen) \ {<<>>}

NextMatch ==
    \/ \E n \in MatchPatterns :
          /\ stack = <<>>
          /\ Cardinality(Registrations(Fields)) < MaxMatchSubs
          /\ on(n, <<"h", 1>>)
    \/ \E n \in MatchNames : stack = <<>> /\ emit(n, "p1")
    \/ \E n \in MatchNames : stack = <<>> /\ emitAsync(n, "p1")
    \/ handlerDone("return")

SpecMatch == Init /\ [][NextMatch]_vars

----------------------------------------------------------------------------
(* Every operation with every kind of name: plain, with leading space,     *)
(* '*', a pattern, empty and blank.                                         *)

CheckedNames == {<<"a">>, <<Space, "a">>, <<Star>>, <<"a", Star>>, <<>>, <<Space>>}

NextNames ==
    \/ \E n \in CheckedNames : stack = <<>> /\ Room /\ on(n, <<"h", 1>>)
    \/ \E n \in CheckedNames, h \in UserHandlers : stack = <<>> /\ off(n, h)
    \/ \E n \in CheckedNames : stack = <<>> /\ Room /\ once(n, <<"h", 2>>)
    \/ \E k \in 1..MaxWrappers : stack = <<>> /\ unsubscribe(k)
    \/ \E n \in CheckedNames : stack = <<>> /\ clear(n)
    \/ stack = <<>> /\ clearEverything
    \/ \E n \in CheckedNames : stack = <<>> /\ emit(n, "p1")
    \/ \E n \in CheckedNames : stack = <<>> /\ emitAsync(n, "p1")
    \/ \E o \in {"return", "throw"} : handlerDone(o)

SpecNames == Init /\ [][NextNames]_vars

----------------------------------------------------------------------------
(* Two patterns that match the same names, next to an exact name and '*':   *)
(* the order of the calls, and what clear(name) removes.                    *)

OrderNames == {<<"a">>, <<Star>>, <<"a", Star>>, <<Star, "a">>}

NextOrder ==
    \/ \E n \in OrderNames, h \in UserHandlers : stack = <<>> /\ on(n, h)
    \/ \E n \in OrderNames, h \in UserHandlers : stack = <<>> /\ off(n, h)
    \/ \E n \in OrderNames : stack = <<>> /\ clear(n)
    \/ \E n \in EmittedNames : stack = <<>> /\ emit(n, "p1")
    \/ \E n \in EmittedNames : stack = <<>> /\ emitAsync(n, "p1")
    \/ \E o \in {"return", "throw"} : handlerDone(o)

SpecOrder == Init /\ [][NextOrder]_vars

----------------------------------------------------------------------------
(* Handlers that do not return promises, subscribed with on and with once,  *)
(* and emit.                                                                *)

SyncNames == {<<"a">>, <<Star>>}

NextOnceSync ==
    \/ \E n \in SyncNames : stack = <<>> /\ Room /\ on(n, <<"h", 1>>)
    \/ \E n \in SyncNames : stack = <<>> /\ Room /\ once(n, <<"h", 2>>)
    \/ \E n \in EmittedNames : stack = <<>> /\ emit(n, "p1")
    \/ \E o \in {"return", "throw"} : handlerDone(o)

SpecOnceSync == Init /\ [][NextOnceSync]_vars

----------------------------------------------------------------------------
(* A pass of any length: handlers that subscribe and unsubscribe while emit *)
(* runs, as often as they are called.  The record of what the call did is   *)
(* not kept here, and neither are the holes of the Sets: a forEach skips    *)
(* them, so that only the number of entries it has passed matters.          *)

Passed(list, idx) == Cardinality({i \in 1..idx : list[i] # Tomb})

Squeeze(X) ==
    IF X.stack = <<>> THEN X
    ELSE LET F == X.stack[1]
             G == IF F.pc \in {"exactIter", "starIter"}
                  THEN [F EXCEPT !.idx = Passed(CurrentList(X, F), F.idx), !.snap = Live(@)]
                  ELSE F
         IN  [X EXCEPT !.handlers = [k \in DOMAIN @ |-> Live(@[k])],
                       !.starHandlers = Live(@),
                       !.stack[1] = G]

Forget(X) == [Squeeze(X) EXCEPT !.trace = <<>>]

\* A running handler calls on.
onInPass(eventName, handler) ==
    /\ stack # <<>>
    /\ Top.kind = "handler"
    /\ LET err == validateEventName(eventName, TRUE)
           Y == IF err = NoError THEN Forget(onAdd(Fields, eventName, handler)) ELSE Fields
       IN  /\ Cardinality(Registrations(Y)) <= MaxSubs
           /\ Commit(Y)
    /\ UNCHANGED <<throwOnNoListeners, pending>>

\* A running handler calls off, or the callback that on returned.
offInPass(eventName, handler) ==
    /\ stack # <<>>
    /\ Top.kind = "handler"
    /\ LET err == validateEventName(eventName, TRUE)
       IN  Commit(IF err = NoError THEN Forget(offRemove(Fields, eventName, handler))
                  ELSE Fields)
    /\ UNCHANGED <<throwOnNoListeners, pending>>

\* The running handler returns, and emit goes on to its next call or to its end.
handlerReturns ==
    /\ stack # <<>>
    /\ Top.kind = "handler"
    /\ stack[Len(stack) - 1].kind = "emit"
    /\ \E X \in {[Fields EXCEPT !.stack = SubSeq(@, 1, Len(stack) - 1)]} :
       \E Y \in {Run(X)} :
       \E Z \in {Forget(Y)} : Commit(Z)
    /\ UNCHANGED <<throwOnNoListeners, pending>>

LoopNames == {<<"a">>, <<Star>>}

NextLoop ==
    \/ \E n \in LoopNames, h \in UserHandlers : stack = <<>> /\ on(n, h)
    \/ \E n \in LoopNames, h \in UserHandlers : stack = <<>> /\ off(n, h)
    \/ \E n \in EmittedNames : stack = <<>> /\ emit(n, "p1")
    \/ \E n \in LoopNames, h \in UserHandlers : onInPass(n, h)
    \/ \E n \in LoopNames, h \in UserHandlers : offInPass(n, h)
    \/ handlerReturns

\* Every handler that is called returns.
SpecLoop == Init /\ [][NextLoop]_vars /\ WF_vars(handlerReturns)

----------------------------------------------------------------------------
(* once called twice with the same handler, next to a handler subscribed    *)
(* with on.                                                                 *)

TwiceNames == {<<"a">>, <<Star>>}

NextTwice ==
    \/ \E n \in TwiceNames : stack = <<>> /\ on(n, <<"h", 1>>)
    \/ \E n \in TwiceNames : stack = <<>> /\ onceUpTo(n, <<"h", 2>>, MaxTwice)
    \/ \E k \in 1..MaxTwice : stack = <<>> /\ unsubscribe(k)
    \/ \E n \in EmittedNames : stack = <<>> /\ emit(n, "p1")
    \/ \E n \in EmittedNames : stack = <<>> /\ emitAsync(n, "p1")
    \/ \E o \in {"return", "throw"} : handlerDone(o)

SpecTwice == Init /\ [][NextTwice]_vars

----------------------------------------------------------------------------
(* Handlers that unsubscribe and clear while emit or emitAsync runs.        *)

InPassNames == {<<"a">>, <<Star>>, <<"a", Star>>}

\* The host program calls, or a running handler while a call is left.
MayCallInPass == stack = <<>> \/ NestedCalls < MaxInPass

NextInPass ==
    \/ \E n \in InPassNames, h \in UserHandlers : stack = <<>> /\ on(n, h)
    \/ \E n \in InPassNames, h \in UserHandlers : MayCallInPass /\ off(n, h)
    \/ \E n \in InPassNames : MayCallInPass /\ clear(n)
    \/ MayCallInPass /\ clearEverything
    \/ \E n \in EmittedNames : stack = <<>> /\ emit(n, "p1")
    \/ \E n \in EmittedNames : stack = <<>> /\ emitAsync(n, "p1")
    \/ \E o \in {"return", "throw"} : handlerDone(o)

SpecInPass == Init /\ [][NextInPass]_vars

----------------------------------------------------------------------------
(* Several handlers that fail in one emitAsync: a handler subscribed with   *)
(* on and one subscribed with once, which throw, return promises that are   *)
(* rejected already, or return promises that are rejected later.            *)

JoinNames == {<<"a">>, <<Star>>}

NextJoin ==
    \/ \E n \in JoinNames : stack = <<>> /\ Room /\ on(n, <<"h", 1>>)
    \/ \E n \in JoinNames : stack = <<>> /\ Room /\ once(n, <<"h", 2>>)
    \/ \E n \in JoinNames, h \in UserHandlers : stack = <<>> /\ off(n, h)
    \/ \E n \in EmittedNames : stack = <<>> /\ emitAsync(n, "p1")
    \/ \E o \in FailingOutcomes : handlerDone(o)
    \/ \E p \in pending, ok \in BOOLEAN : settle(p, ok)

SpecJoin == Init /\ [][NextJoin]_vars

----------------------------------------------------------------------------
(* What the properties below speak of.                                      *)

\* The latest call of the host program was an emit that has ended, for a
\* valid name.
EmitEnded ==
    /\ stack = <<>>
    /\ last.op = "emit"
    /\ last.outcome \in {"returned", "threw"}
    /\ Trim(last.name) # <<>> /\ ~HasStar(last.name)

EmitReturned == EmitEnded /\ last.outcome = "returned"

\* The same for emit or emitAsync.
PassEnded ==
    /\ stack = <<>>
    /\ last.op \in {"emit", "emitAsync"}
    /\ last.outcome \in {"returned", "threw", "promise"}
    /\ Trim(last.name) # <<>> /\ ~HasStar(last.name)

PassEndedNormally == PassEnded /\ last.outcome # "threw"

\* The handler calls made by the pass of the host program's call itself, and
\* those among them made through one registration.
CallsIn(lvl) == {i \in 1..Len(trace) : trace[i].ev = "call" /\ trace[i].lvl = lvl}

Via(reg, key, f) ==
    {i \in CallsIn(1) : trace[i].reg = reg /\ trace[i].key = key /\ trace[i].fn = f}

\* No handler has called on, off, once, clear or an unsubscribe callback.
NoMutation == \A i \in 1..Len(trace) : trace[i].ev \in {"call", "emit", "emitAsync"}

ExactAtStart(e) == IF e \in DOMAIN pre.handlers THEN Elems(pre.handlers[e]) ELSE {}

PatternsAtStart == {r \in Registrations(pre) : r[1] = "pattern"}

RegisteredFns == {r[3] : r \in Registrations(Fields)}

\* The shapes of patterns that the documentation names.
StarAt(s) == {i \in 1..Len(s) : s[i] = Star}

FirstStar(s) == CHOOSE i \in StarAt(s) : \A j \in StarAt(s) : i <= j

Prefix(s) == SubSeq(s, 1, FirstStar(s) - 1)

Suffix(s) == SubSeq(s, FirstStar(s) + 1, Len(s))

IsPrefixPattern(s) == Cardinality(StarAt(s)) = 1 /\ Len(s) > 1 /\ s[Len(s)] = Star

IsSuffixPattern(s) == Cardinality(StarAt(s)) = 1 /\ Len(s) > 1 /\ s[1] = Star

IsInfixPattern(s) == Cardinality(StarAt(s)) = 1 /\ s[1] # Star /\ s[Len(s)] # Star

IsMiddlePattern(s) == Cardinality(StarAt(s)) = 2 /\ s[1] = Star /\ s[Len(s)] = Star

Middle(s) == SubSeq(s, 2, Len(s) - 1)

\* The documented meaning of a pattern.
DocMatches(pattern, e) ==
    IF Cardinality(StarAt(pattern)) = 1
    THEN /\ StartsWith(e, Prefix(pattern))
         /\ EndsWith(e, Suffix(pattern))
         /\ Len(e) >= Len(Prefix(pattern)) + Len(Suffix(pattern))
    ELSE IsMiddlePattern(pattern) /\ Includes(e, Middle(pattern))

\* The documented meaning of a subscription name.
NameMatches(n, e) ==
    IF n = <<Star>> THEN TRUE ELSE IF HasStar(n) THEN DocMatches(n, e) ELSE n = e

----------------------------------------------------------------------------
(* Exact dispatch.                                                          *)

\* Every handler registered under the emitted name when the call began was
\* called exactly once by the pass, with the payload alone; no handler that was
\* registered only under other exact names was called.
ExactDispatch ==
    /\ \A f \in ExactAtStart(last.name) :
          /\ Cardinality({i \in CallsIn(1) : trace[i].reg = "exact" /\ trace[i].fn = f}) = 1
          /\ \A i \in Via("exact", last.name, f) :
                trace[i].h = f /\ trace[i].arity = 1 /\ trace[i].data = last.data
    /\ \A f \in UserHandlers :
          (/\ \E r \in Registrations(pre) : r[3] = f
           /\ \A r \in Registrations(pre) : r[3] = f => (r[1] = "exact" /\ r[2] # last.name))
          => \A i \in CallsIn(1) : trace[i].fn # f

\* C1, as stated: for every valid name e and payload p, when no handler changes
\* the registries during the pass, emit(e, p) calls every handler registered
\* under the exact name e exactly once with p, and no handler registered only
\* under a different exact name.
C1_Original == (EmitEnded /\ NoMutation) => ExactDispatch

\* C1, amended: the same of an emit(e, p) that returns normally, that is, when
\* moreover no handler throws synchronously during the pass.
C1_ExactDispatch == (EmitReturned /\ NoMutation) => ExactDispatch

\* An emit has returned after calling both handlers of its name, a handler
\* having called emit meanwhile.
C1_Witness ==
    /\ EmitReturned /\ NoMutation
    /\ ExactAtStart(last.name) = UserHandlers
    /\ \A f \in UserHandlers : Via("exact", last.name, f) # {}
    /\ \E i \in 1..Len(trace) : trace[i].ev = "emit"

----------------------------------------------------------------------------
(* Universal handlers.                                                      *)

\* Every handler registered under '*' when the call began was called exactly
\* once by the pass with the emitted name and the payload, and so were the
\* exact handlers of the name and the handlers of every matching pattern.
StarDispatch ==
    /\ \A f \in Elems(pre.starHandlers) :
          /\ Cardinality({i \in CallsIn(1) : trace[i].reg = "star" /\ trace[i].fn = f}) = 1
          /\ \A i \in Via("star", <<Star>>, f) :
                /\ trace[i].h = f /\ trace[i].arity = 2
                /\ trace[i].name = last.name /\ trace[i].data = last.data
    /\ \A f \in ExactAtStart(last.name) : Via("exact", last.name, f) # {}
    /\ \A r \in PatternsAtStart : DocMatches(r[2], last.name) => Via("pattern", r[2], r[3]) # {}

\* C2, as stated: every handler registered under '*' is called exactly once with
\* (e, p) by every successful emit(e, p), in addition to the exact handlers of e
\* and the handlers of every pattern matching e.
C2_Original == EmitReturned => StarDispatch

\* C2, amended: the same when no handler changes the registries during the pass.
C2_StarDispatch == (EmitReturned /\ NoMutation) => StarDispatch

\* An emit has returned after calling an exact, a universal and a pattern
\* handler.
C2_Witness ==
    /\ EmitReturned /\ NoMutation
    /\ \E f \in Elems(pre.starHandlers) : Via("star", <<Star>>, f) # {}
    /\ \E f \in ExactAtStart(last.name) : Via("exact", last.name, f) # {}
    /\ \E r \in PatternsAtStart : Via("pattern", r[2], r[3]) # {}

----------------------------------------------------------------------------
(* Patterns.                                                                *)

CalledVia(r) == Via(r[1], r[2], r[3]) # {}

\* C3: a handler under 'prefix*' is called by emit(e) if and only if e starts
\* with prefix, and a handler under '*suffix' if and only if e ends with suffix.
C3_OneSidedPatterns ==
    EmitEnded =>
        \A r \in PatternsAtStart :
            /\ IsPrefixPattern(r[2]) => (CalledVia(r) <=> StartsWith(last.name, Prefix(r[2])))
            /\ IsSuffixPattern(r[2]) => (CalledVia(r) <=> EndsWith(last.name, Suffix(r[2])))

\* An emit has called the handler of a '*suffix' pattern for a name that is
\* longer than the suffix and does not start with it.
C3_Witness ==
    /\ EmitEnded
    /\ \E r \in PatternsAtStart :
          /\ IsSuffixPattern(r[2]) /\ CalledVia(r)
          /\ Len(last.name) > Len(Suffix(r[2]))
          /\ ~StartsWith(last.name, Suffix(r[2]))

\* C4: a handler under '*middle*' is called by emit(e) and by emitAsync(e) for
\* every name e that contains middle, and for every name when middle is empty.
C4_MiddlePatterns ==
    PassEnded =>
        \A r \in PatternsAtStart :
            (IsMiddlePattern(r[2]) /\ Includes(last.name, Middle(r[2]))) => CalledVia(r)

\* C5: a handler under 'prefix*suffix', both fragments non-empty, is called by
\* emit(e) if and only if e starts with prefix, ends with suffix and is at least
\* as long as the two together.
C5_InfixPatterns ==
    EmitEnded =>
        \A r \in PatternsAtStart :
            IsInfixPattern(r[2]) =>
                (CalledVia(r) <=> /\ StartsWith(last.name, Prefix(r[2]))
                                  /\ EndsWith(last.name, Suffix(r[2]))
                                  /\ Len(last.name) >= Len(Prefix(r[2])) + Len(Suffix(r[2])))

\* An emit has not called the handler of a pattern whose prefix and suffix
\* both fit the name but overlap in it.
C5_Witness ==
    /\ EmitEnded
    /\ \E r \in PatternsAtStart :
          /\ IsInfixPattern(r[2]) /\ ~CalledVia(r)
          /\ StartsWith(last.name, Prefix(r[2])) /\ EndsWith(last.name, Suffix(r[2]))

----------------------------------------------------------------------------
(* One-shot subscriptions.                                                  *)

WrapperCalls(k) == {i \in 1..Len(trace) : trace[i].ev = "call" /\ trace[i].fn = Wrapper(k)}

\* The closure was registered, under a name matching the emitted one, when the
\* host program's call began.
DueAtStart(k) ==
    /\ \E r \in Registrations(pre) : r[3] = Wrapper(k)
    /\ NameMatches(wrappers[k].name, last.name)

\* The handler given to once is called at most once, and with the arguments of
\* the emission that calls it.
OnceCalls ==
    \A k \in 1..Len(wrappers) :
        /\ wrappers[k].fired <= 1
        /\ \A i \in WrapperCalls(k) :
              /\ trace[i].h = wrappers[k].h /\ trace[i].data = last.data
              /\ IF WildcardName(wrappers[k].name)
                 THEN trace[i].arity = 2 /\ (trace[i].lvl = 1 => trace[i].name = last.name)
                 ELSE trace[i].arity = 1

FiredOnceIn(k) == Cardinality(WrapperCalls(k)) = 1 /\ wrappers[k].fired = 1

\* C6, as stated: after once(n, h), h is called at most once through that
\* registration; the first emission whose name matches n calls it exactly once
\* with the arguments of that emission, and no later emission calls it.
C6_Original ==
    /\ OnceCalls
    /\ PassEnded => \A k \in 1..Len(wrappers) : DueAtStart(k) => FiredOnceIn(k)

\* C6, amended: the same, the emission that calls h being the first matching one
\* that is not ended by the exception of a handler called before h.
C6_OnceAtMostOnce ==
    /\ OnceCalls
    /\ PassEndedNormally => \A k \in 1..Len(wrappers) : DueAtStart(k) => FiredOnceIn(k)

\* A matching emission has ended without calling a handler that an earlier
\* emission had called through its one-shot registration.
C6_Witness ==
    /\ PassEndedNormally
    /\ \E k \in 1..Len(wrappers) :
          /\ wrappers[k].fired = 1
          /\ WrapperCalls(k) = {}
          /\ NameMatches(wrappers[k].name, last.name)

C9_OffCancelsOnce ==
    \A k \in 1..Len(wrappers) : wrappers[k].offed => wrappers[k].fired = 0

----------------------------------------------------------------------------
(* off.                                                                     *)

\* C8: off(n, h), and the callback returned by on(n, h), remove the
\* registration of h under n and nothing else: the other handlers of n and
\* every registration under another name, '*' or another pattern stay, in
\* their order.
C8_OffRemovesOnlyThat ==
    (stack = <<>> /\ last.op = "off" /\ last.outcome = "returned") =>
        /\ Registrations(Fields) =
              Registrations(pre) \ {<<Route(last.name), last.name, last.fn>>}
        /\ Route(last.name) # "star" => starHandlers = pre.starHandlers
        /\ \A k \in DOMAIN pre.handlers :
              (Route(last.name) # "exact" \/ k # last.name) =>
                  (k \in DOMAIN handlers /\ handlers[k] = pre.handlers[k])
        /\ Route(last.name) # "pattern" => wildcardHandlers = pre.wildcardHandlers

\* off has removed a handler that shared its name with another handler and
\* that is registered elsewhere too.
C8_Witness ==
    /\ stack = <<>> /\ last.op = "off" /\ last.outcome = "returned"
    /\ <<Route(last.name), last.name, last.fn>> \in Registrations(pre)
    /\ \E r \in Registrations(Fields) : r[2] = last.name /\ r[3] # last.fn
    /\ \E r \in Registrations(Fields) : r[2] # last.name /\ r[3] = last.fn

----------------------------------------------------------------------------
(* No listeners.                                                            *)

NoneMatchesAtStart ==
    /\ ExactAtStart(last.name) = {}
    /\ Elems(pre.starHandlers) = {}
    /\ \A r \in PatternsAtStart : ~DocMatches(r[2], last.name)

\* C10: emit(e, p) for a valid name that no registered handler matches returns
\* normally when throwOnNoListeners is false, and throws NoListenersError
\* naming e when it is true.
C10_NoListeners ==
    (EmitEnded /\ NoneMatchesAtStart) =>
        IF throwOnNoListeners
        THEN /\ last.outcome = "threw"
             /\ last.err.type = "NoListenersError"
             /\ last.err.name = last.name
        ELSE last.outcome = "returned" /\ last.err = NoError

\* emit has thrown NoListenersError for a name that matches none of the
\* handlers registered under other names.
C10_Witness ==
    /\ EmitEnded /\ NoneMatchesAtStart
    /\ throwOnNoListeners
    /\ last.outcome = "threw"
    /\ Registrations(pre) # {}

----------------------------------------------------------------------------
(* How a call of the host program fails.                                    *)

\* The promise returned by the latest emitAsync of the host program.
ThisJoin == joins[Len(joins)]

AsyncEnded == stack = <<>> /\ last.op = "emitAsync" /\ last.outcome = "promise"

\* emit has thrown an error of this type, or the promise of emitAsync is
\* rejected with one.
FailedWith(type) ==
    \/ last.op = "emit" /\ last.outcome = "threw" /\ last.err.type = type
    \/ AsyncEnded /\ ThisJoin.state = "rejected" /\ ThisJoin.err.type = type

\* C11: emit(e) and emitAsync(e) do not fail with NoListenersError when a
\* handler is registered under the exact name e, under '*' or under a pattern
\* whose documented shape matches e.
C11_NoListenersOnlyUnmatched ==
    (PassEnded /\ ~NoneMatchesAtStart) => ~FailedWith("NoListenersError")

----------------------------------------------------------------------------
(* The promise of emitAsync.                                                *)

\* The promises that the pass of the latest emitAsync collected: one for each
\* call of a one-shot closure (an async function) at least.
Collected ==
    Cardinality({i \in CallsIn(1) : IsWrapper(trace[i].fn)}) <= Len(ThisJoin.units)

\* C12: when the promise of emitAsync(e, p) is fulfilled, every promise that a
\* handler called by that emitAsync returned is fulfilled; the promise of
\* emitAsync is not fulfilled while one of them is pending.
C12_ResolvesAfterHandlers ==
    /\ \A i \in 1..Len(joins) :
          joins[i].state = "resolved" =>
              \A u \in 1..Len(joins[i].units) : joins[i].units[u].st = "fulfilled"
    /\ \A i \in 1..Len(joins) :
          \A u \in 1..Len(joins[i].units) :
              joins[i].units[u].st = "pending" =>
                  \E q \in pending : q.id = joins[i].units[u].id
    /\ (AsyncEnded /\ PassEnded) => Collected

\* The promise of an emitAsync is fulfilled, after the promise of a handler
\* that was pending when emitAsync returned has been fulfilled.
C12_Witness ==
    /\ AsyncEnded /\ PassEnded
    /\ ThisJoin.state = "resolved"
    /\ \E u \in 1..Len(ThisJoin.units) : ThisJoin.units[u].id # 0
    /\ Len(ThisJoin.units) = 2

\* The units of the latest emitAsync promise that are rejected.
RejectedUnits == {u \in 1..Len(ThisJoin.units) : ThisJoin.units[u].st = "rejected"}

\* Every registration that was there when the call began, and whose name
\* matches the emitted one, has been called.
AllMatchedCalled ==
    \A r \in Registrations(pre) :
        NameMatches(r[2], last.name) =>
            IF IsWrapper(r[3]) THEN WrapperCalls(r[3][2]) # {} ELSE CalledVia(r)

\* C13: when exactly one of the handlers called by emitAsync(e, p) fails, by
\* an exception or by a rejected promise, the promise of emitAsync is rejected
\* with that error, and every other handler registered under e, under '*' or
\* under a matching pattern has been called all the same.
C13_OneFailure ==
    (PassEnded /\ last.op = "emitAsync") =>
        /\ last.outcome = "promise"
        /\ Cardinality(RejectedUnits) = 1 =>
              /\ ThisJoin.state = "rejected"
              /\ \A u \in RejectedUnits : ThisJoin.err = ThisJoin.units[u].err
              /\ AllMatchedCalled

\* The first handler that emitAsync called has thrown, a one-shot handler was
\* called after it, and the promise is rejected with the error of the first.
C13_Witness ==
    /\ AsyncEnded /\ PassEnded
    /\ Cardinality(RejectedUnits) = 1
    /\ ThisJoin.units[1] = Unit("rejected", 0, HandlerError(<<"h", 1>>))
    /\ ThisJoin.err = HandlerError(<<"h", 1>>)
    /\ \E i \in CallsIn(1), j \in CallsIn(1) :
          i < j /\ trace[i].fn = <<"h", 1>> /\ IsWrapper(trace[j].fn)

\* The handler promises of an emitAsync promise that were rejected when the
\* pass collected them: exceptions, and one-shot closures whose handler threw.
RejectedAtOnce(J) == {u \in 1..Len(J.units) : J.units[u].st = "rejected" /\ J.units[u].id = 0}

----------------------------------------------------------------------------
(* emit and the promises of its handlers.                                   *)

\* The latest call of the host program is an emit that has ended: it has
\* returned or thrown, whatever promises its handlers returned; when it has
\* returned, every matching handler has been called; when it ended by the error
\* of a handler, that handler is a plain function that threw in the call.
EmitEndsAtOnce ==
    (stack = <<>> /\ last.op = "emit") =>
        /\ last.outcome \in {"returned", "threw"}
        /\ EmitReturned => AllMatchedCalled
        /\ (last.outcome = "threw" /\ last.err.type = "Error") =>
              \E i \in CallsIn(1) :
                  /\ trace[i].h = last.err.by /\ ~IsWrapper(trace[i].fn)
                  /\ \A j \in CallsIn(1) : j <= i

\* C15: emit(e, p) does not wait for asynchronous handlers: it returns when
\* every matching handler has been called, the promises they returned being
\* pending or not, and the later fulfilment or rejection of such a promise
\* changes nothing of the call that has returned.
C15_EmitDoesNotWait ==
    [][/\ EmitEndsAtOnce'
       /\ (pending' # pending /\ pending' \subseteq pending) =>
             (last.op = "emit" => (last' = last /\ trace' = trace /\ Snapshot' = Snapshot))]_vars

\* emit has returned while the promise that a one-shot handler, called by this
\* emit, returned is pending.
C15_Witness ==
    /\ EmitReturned
    /\ \E q \in pending :
          /\ IsWrapper(q.fn)
          /\ \E i \in CallsIn(1) : trace[i].fn = q.fn

----------------------------------------------------------------------------
(* Names that an operation refuses.                                         *)

Blank(n) == Trim(n) = <<>>

EmptyNameError == InvalidEventNameError("Event name cannot be an empty string.", <<>>)

WildcardNameError(n) ==
    InvalidEventNameError("Wildcard pattern is not allowed for this operation.", n)

\* The error that an operation owes to the name it was given.
NameError(op, n) ==
    IF Blank(n) THEN EmptyNameError
    ELSE IF op \in {"emit", "emitAsync"} /\ HasStar(n) THEN WildcardNameError(n)
    ELSE NoError

\* The host program's latest call is over, and it was one of these operations.
Returned(ops) == stack = <<>> /\ last.op \in ops

\* The call left the three registries as they were and called no handler.
NothingDone == Snapshot = pre /\ trace = <<>>

\* The error with which the latest emit or emitAsync has failed.
Failure == IF last.op = "emit" THEN last.err ELSE ThisJoin.err

\* C16: emit and emitAsync fail with InvalidEventNameError for every name that
\* is empty after trimming or contains '*', '*' itself included and whatever is
\* registered; no handler is called and the three registries stay as they were.
C16_EmitRefusesNames ==
    (Returned({"emit", "emitAsync"}) /\ (Blank(last.name) \/ HasStar(last.name))) =>
        /\ FailedWith("InvalidEventNameError")
        /\ Failure = NameError(last.op, last.name)
        /\ NothingDone

\* emit('*') has failed while a handler was registered under '*', and the
\* handler was not called.
C16_Witness ==
    /\ Returned({"emit", "emitAsync"})
    /\ last.name = <<Star>>
    /\ Elems(starHandlers) # {}
    /\ FailedWith("InvalidEventNameError")
    /\ trace = <<>>

AllOps == {"on", "off", "once", "unsubscribe", "clear", "emit", "emitAsync"}

----------------------------------------------------------------------------
(* No listeners, for emitAsync.                                             *)

\* C18: emitAsync(e, p) for a valid name that no registered handler matches
\* does not throw: it returns a promise, which is rejected with
\* NoListenersError naming e when throwOnNoListeners is true, and fulfilled
\* when it is false.
C18_NoListenersAsync ==
    (PassEnded /\ last.op = "emitAsync" /\ NoneMatchesAtStart) =>
        /\ last.outcome = "promise" /\ last.err = NoError
        /\ ThisJoin = IF throwOnNoListeners
                      THEN Join(<<>>, "rejected", NoListenersError(last.name))
                      ELSE Join(<<>>, "resolved", NoError)

\* emitAsync has returned a promise rejected with NoListenersError for a name
\* that matches none of the handlers registered under other names.
C18_Witness ==
    /\ PassEnded /\ last.op = "emitAsync" /\ NoneMatchesAtStart
    /\ throwOnNoListeners
    /\ Registrations(pre) # {}
    /\ last.outcome = "promise"
    /\ ThisJoin.state = "rejected" /\ ThisJoin.err.name = last.name

----------------------------------------------------------------------------
(* Names that on, off, once and clear accept.                               *)

\* C19: on, off, once and clear(name) fail with InvalidEventNameError if and
\* only if the name is empty after trimming; they accept the names that contain
\* '*'; when one of them fails, the three registries stay as they were.
C19_PermissiveNames ==
    Returned({"on", "off", "once", "clear"}) =>
        IF Blank(last.name)
        THEN /\ last.outcome = "threw" /\ last.err = EmptyNameError
             /\ NothingDone
        ELSE last.outcome = "returned" /\ last.err = NoError

\* clear was given a blank name when handlers were registered under '*' and
\* under a pattern: it has thrown and they are still registered.
C19_Witness ==
    /\ Returned({"clear"})
    /\ last.name = <<Space>>
    /\ last.outcome = "threw"
    /\ Elems(starHandlers) # {}
    /\ \E r \in Registrations(Fields) : r[1] = "pattern"

----------------------------------------------------------------------------
(* clear().                                                                 *)

\* C20: when clear() has returned, the three registries are empty; an emission
\* calls only what is registered when it begins, so that a later emit or
\* emitAsync calls none of the handlers registered before the clear, one-shot
\* closures that have not fired included, until something is subscribed again.
C20_ClearEmptiesAll ==
    /\ Returned({"clearAll"}) =>
          /\ last.outcome = "returned"
          /\ Registrations(Fields) = {}
          /\ handlers = EmptyObject /\ starHandlers = <<>> /\ wildcardHandlers = <<>>
    /\ PassEnded =>
          \A i \in CallsIn(1) : <<trace[i].reg, trace[i].key, trace[i].fn>> \in Registrations(pre)

\* clear() has returned; before it a handler and a one-shot closure that had
\* not fired were registered, in two of the registries.
C20_Witness ==
    /\ Returned({"clearAll"})
    /\ Cardinality({r[1] : r \in Registrations(pre)}) = 2
    /\ \E r \in Registrations(pre) : IsWrapper(r[3]) /\ wrappers[r[3][2]].fired = 0
    /\ \E r \in Registrations(pre) : r[1] = "pattern"

----------------------------------------------------------------------------
(* clear(name).                                                             *)

\* The entries of the Map of patterns other than that of one pattern, in
\* their order.
OtherPatterns(map, pattern) == SelectSeq(map, LAMBDA e : e.pattern # pattern)

\* C21: clear(n) with a valid name removes one registry entry and nothing
\* else: '*' empties the universal set only; a name containing '*' deletes the
\* entry of that very pattern only, not the exact names it matches nor other
\* patterns; another name deletes the exact entry n only.  When there is no
\* entry for n, clear(n) raises no error and changes nothing.
C21_ClearRemovesOneEntry ==
    (Returned({"clear"}) /\ ~Blank(last.name)) =>
        /\ last.outcome = "returned" /\ last.err = NoError
        /\ Registrations(Fields) =
              {r \in Registrations(pre) : ~(r[1] = Route(last.name) /\ r[2] = last.name)}
        /\ starHandlers = IF Route(last.name) = "star" THEN <<>> ELSE pre.starHandlers
        /\ wildcardHandlers = IF Route(last.name) = "pattern"
                              THEN OtherPatterns(pre.wildcardHandlers, last.name)
                              ELSE pre.wildcardHandlers
        /\ handlers = IF Route(last.name) = "exact" /\ last.name \in DOMAIN pre.handlers
                      THEN RemoveKey(pre.handlers, last.name)
                      ELSE pre.handlers
        /\ (\A r \in Registrations(pre) : r[2] # last.name) => Snapshot = pre

\* clear of a pattern has removed its entry, the first of the Map, and left
\* the other pattern and the exact name that it matches.
C21_Witness ==
    /\ Returned({"clear"})
    /\ Route(last.name) = "pattern"
    /\ Len(pre.wildcardHandlers) = 2 /\ pre.wildcardHandlers[1].pattern = last.name
    /\ Len(wildcardHandlers) = 1
    /\ \E r \in Registrations(Fields) : r[1] = "exact" /\ Matches(last.name, r[2])

----------------------------------------------------------------------------
(* Empty sets.                                                              *)

\* C22: in every reachable state, calls made by running handlers and the
\* self-removal of one-shot closures included, no exact name and no pattern is
\* a key of its registry with an empty set of handlers: a set goes with its
\* last handler.
C22_NoEmptySets ==
    /\ \A k \in DOMAIN handlers : Size(handlers[k]) > 0
    /\ \A i \in 1..Len(wildcardHandlers) :
          wildcardHandlers[i] # NoEntry => Size(wildcardHandlers[i].set) > 0

\* A one-shot closure, the only handler of its name when the emission began,
\* is running its handler: the name is no longer a key of its registry.
C22_Witness ==
    /\ stack # <<>> /\ Top.kind = "handler" /\ IsWrapper(Top.fn)
    /\ LET n == wrappers[Top.fn[2]].name
       IN  IF Route(n) = "exact"
           THEN n \in DOMAIN pre.handlers /\ n \notin DOMAIN handlers
           ELSE /\ Route(n) = "pattern"
                /\ MapHas(pre.wildcardHandlers, n) /\ ~MapHas(wildcardHandlers, n)

----------------------------------------------------------------------------
(* off of a handler that is not registered.                                 *)

\* The registration that the latest on or off was about.
Subject == <<Route(last.name), last.name, last.fn>>

\* C23: the callback returned by on(n, h), which runs off(n, h), may be called
\* again: the second call raises no error and leaves the three registries as
\* the first call left them; and off(n, h) for a handler that is not
\* registered under n changes nothing.
C23_OffIdempotent ==
    [][(Returned({"off"})' /\ ~Blank(last'.name)) =>
          /\ last'.outcome = "returned"
          /\ Subject' \notin Registrations(Fields)'
          /\ Subject' \notin Registrations(Fields) => Snapshot' = Snapshot
          /\ (Returned({"off"}) /\ last.name = last'.name /\ last.fn = last'.fn) =>
                Snapshot' = Snapshot]_vars

\* off has returned for a handler that was not registered under the name,
\* where another handler is: nothing has changed.
C23_Witness ==
    /\ Returned({"off"}) /\ last.outcome = "returned"
    /\ Subject \notin Registrations(pre)
    /\ \E r \in Registrations(pre) : r[1] = Subject[1] /\ r[2] = Subject[2]
    /\ Snapshot = pre

----------------------------------------------------------------------------
(* A one-shot handler that fails in emitAsync.                              *)

\* The latest call of the host program is an emitAsync that has called the
\* one-shot closure k, whose handler has failed: it threw, or the promise it
\* returned has been rejected.
OnceFailedIn(k) ==
    /\ AsyncEnded /\ PassEnded
    /\ \E i \in CallsIn(1) : trace[i].fn = Wrapper(k)
    /\ wrappers[k].h \notin {trace[i].fn : i \in CallsIn(1)}
    /\ \E u \in RejectedUnits : ThisJoin.units[u].err = HandlerError(wrappers[k].h)

\* The step is an emitAsync of the same name by the host program, which calls
\* no handler.
SameNameAgain ==
    /\ last'.op = "emitAsync" /\ last'.name = last.name
    /\ stack' = <<>> /\ trace' = <<>> /\ last'.outcome = "promise"
    /\ joins' # joins

\* What failure propagation and removal mean in a state.
OncePropagates ==
    \A k \in 1..Len(wrappers) :
        /\ wrappers[k].fired <= 1
        /\ OnceFailedIn(k) =>
              /\ ThisJoin.state = "rejected"
              /\ Cardinality(RejectedUnits) = 1 => ThisJoin.err = HandlerError(wrappers[k].h)
              /\ Wrapper(k) \notin RegisteredFns

\* C24, as stated: when a handler registered with once fails during emitAsync,
\* by an exception or a rejected promise, the promise of that emitAsync is
\* rejected with its error and the one-shot registration is removed all the
\* same: a later emitAsync of the same name does not call the handler, and its
\* promise is fulfilled.
C24_Original ==
    [][/\ OncePropagates'
       /\ ((\E k \in 1..Len(wrappers) : OnceFailedIn(k)) /\ SameNameAgain) =>
             joins'[Len(joins')].state = "resolved"]_vars

\* C24, amended: the same, the promise of the later emitAsync being fulfilled
\* unless throwOnNoListeners is true and no other handler matches the name:
\* it is then rejected with NoListenersError.
C24_OnceFailurePropagates ==
    [][/\ OncePropagates'
       /\ ((\E k \in 1..Len(wrappers) : OnceFailedIn(k)) /\ SameNameAgain) =>
             joins'[Len(joins')] =
                 IF throwOnNoListeners
                 THEN Join(<<>>, "rejected", NoListenersError(last.name))
                 ELSE Join(<<>>, "resolved", NoError)]_vars

\* The promise that a one-shot handler returned to emitAsync was pending and
\* has been rejected: the promise of emitAsync is rejected with its error.
C24_Witness ==
    \E k \in 1..Len(wrappers) :
        /\ OnceFailedIn(k)
        /\ \E u \in RejectedUnits : ThisJoin.units[u].id # 0
        /\ ThisJoin.err = HandlerError(wrappers[k].h)

----------------------------------------------------------------------------
(* Patterns with several stars.                                             *)

LastStar(s) == CHOOSE i \in StarAt(s) : \A j \in StarAt(s) : j <= i

LastFragment(s) == SubSeq(s, LastStar(s) + 1, Len(s))

\* More than one star, and not the documented '*middle*'.
ManyStars(s) == Cardinality(StarAt(s)) >= 2 /\ ~IsMiddlePattern(s)

FitsEnds(s, e) == StartsWith(e, Prefix(s)) /\ EndsWith(e, LastFragment(s))

\* C25, as stated: a pattern with more than one '*' that is not of a documented
\* shape is matched by its first and its last fragment: its handlers are called
\* by emit(e) whenever e starts with the first and ends with the last.
C25_Original ==
    EmitEnded =>
        \A r \in PatternsAtStart :
            (ManyStars(r[2]) /\ FitsEnds(r[2], last.name)) => CalledVia(r)

\* C25, amended: such a pattern matches no name: its handlers are called by no
\* emit and no emitAsync.
C25_ManyStarsNeverMatch ==
    PassEnded =>
        \A r \in PatternsAtStart : ManyStars(r[2]) => ~CalledVia(r)

\* An emit has ended without calling the handler of a pattern with two stars
\* whose first and last fragments, both non-empty, begin and end the name.
C25_Witness ==
    /\ EmitEnded
    /\ \E r \in PatternsAtStart :
          /\ ManyStars(r[2]) /\ FitsEnds(r[2], last.name)
          /\ Prefix(r[2]) # <<>> /\ LastFragment(r[2]) # <<>>
          /\ ~CalledVia(r)

----------------------------------------------------------------------------
(* Exceptions of handlers in emit.                                          *)

\* A handler subscribed with on is running, called by an emit of the host
\* program.
PlainHandlerInEmit ==
    /\ Len(stack) = 2
    /\ Top.kind = "handler" /\ ~IsWrapper(Top.fn)
    /\ stack[1].kind = "emit"

\* The step ends the emit with the exception of the running handler, without
\* another call of a handler.
Propagates ==
    /\ stack' = <<>>
    /\ last'.outcome = "threw" /\ last'.err = HandlerError(Top.h)
    /\ trace' = trace

\* C26: emit does not catch the exceptions of handlers: when a handler
\* subscribed with on, under the exact name, '*' or a pattern, throws while
\* emit(e, p) runs, the exception reaches the caller of emit, no handler later
\* in the order is called by that pass, and NoListenersError is not raised.
C26_EmitLetsThrow ==
    PlainHandlerInEmit =>
        /\ ENABLED (handlerDone("throw") /\ Propagates)
        /\ ~ENABLED (handlerDone("throw") /\ ~Propagates)

\* emit has ended with the exception of a handler while a matching handler,
\* later in the order, has not been called.
C26_Witness ==
    /\ EmitEnded
    /\ last.outcome = "threw" /\ last.err.type = "Error"
    /\ \E i \in CallsIn(1) : trace[i].h = last.err.by /\ trace[i].reg = "star"
    /\ \E r \in Registrations(pre) : r[1] = "pattern" /\ Matches(r[2], last.name) /\ ~CalledVia(r)

\* The handler given to once is running, called through its one-shot closure
\* by an emit of the host program.
OnceHandlerInEmit ==
    /\ Len(stack) = 2
    /\ Top.kind = "handler" /\ IsWrapper(Top.fn)
    /\ stack[1].kind = "emit"

\* The step goes on with the pass: it calls the next handler, or emit returns.
PassGoesOn ==
    \/ stack' = <<>> /\ last'.outcome = "returned" /\ trace' = trace
    \/ /\ Len(stack') = 2 /\ last'.outcome = "running"
       /\ Len(trace') = Len(trace) + 1

\* C27, as stated: the closure of once is asynchronous only when the user's
\* handler is: an exception that a synchronous handler registered with once
\* throws during emit reaches the caller of emit, as it does for the same
\* handler registered with on.
C27_Original ==
    OnceHandlerInEmit =>
        /\ ENABLED (handlerDone("throw") /\ Propagates)
        /\ ~ENABLED (handlerDone("throw") /\ ~Propagates)

\* C27, amended: the closure of once is an async function whatever the user's
\* handler is: an exception that the handler throws during emit rejects the
\* promise of the closure, which emit drops; emit goes on with the handlers
\* that follow and returns normally.
C27_OnceAlwaysAsync ==
    OnceHandlerInEmit =>
        /\ ENABLED (handlerDone("throw") /\ PassGoesOn)
        /\ ~ENABLED (handlerDone("throw") /\ ~PassGoesOn)

\* The handler of a one-shot closure, the last handler of an emit, is running:
\* when it throws, the emit returns.
C27_Witness ==
    /\ OnceHandlerInEmit
    /\ ENABLED (handlerDone("throw") /\ stack' = <<>> /\ last'.outcome = "returned")

----------------------------------------------------------------------------
(* The order of the calls.                                                  *)

\* The registrations of one Set in its order.
InOrder(reg, key, set) == [i \in 1..Len(set) |-> <<reg, key, set[i]>>]

\* Those of the patterns that match e, entry after entry of the Map.
RECURSIVE PatternOrder(_, _)
PatternOrder(map, e) ==
    IF map = <<>> THEN <<>>
    ELSE (IF Matches(Head(map).pattern, e)
          THEN InOrder("pattern", Head(map).pattern, Head(map).set)
          ELSE <<>>) \o PatternOrder(Tail(map), e)

\* The order that the registries at the beginning of the call give for e.
ExpectedOrder(e) ==
    InOrder("exact", e, IF e \in DOMAIN pre.handlers THEN pre.handlers[e] ELSE <<>>)
    \o InOrder("star", <<Star>>, pre.starHandlers)
    \o PatternOrder(pre.wildcardHandlers, e)

\* The calls of the host program's latest call, in their order.
CallOrder == [j \in 1..Len(trace) |-> <<trace[j].reg, trace[j].key, trace[j].fn>>]

IsPrefixOf(s, t) == Len(s) <= Len(t) /\ s = SubSeq(t, 1, Len(s))

\* on puts a new handler last in its Set and a new pattern last in the Map, and
\* leaves everything else in its place.
SubscriptionOrder ==
    (Returned({"on"}) /\ last.outcome = "returned") =>
        IF Subject \in Registrations(pre) THEN Snapshot = pre
        ELSE IF Route(last.name) = "star" THEN
            starHandlers = Append(pre.starHandlers, last.fn)
        ELSE IF Route(last.name) = "exact" THEN
            handlers[last.name] =
                Append(IF last.name \in DOMAIN pre.handlers
                       THEN pre.handlers[last.name] ELSE <<>>, last.fn)
        ELSE IF MapHas(pre.wildcardHandlers, last.name) THEN
            wildcardHandlers =
                [pre.wildcardHandlers EXCEPT ![MapPos(pre.wildcardHandlers, last.name)].set =
                    Append(@, last.fn)]
        ELSE wildcardHandlers =
                Append(pre.wildcardHandlers, [pattern |-> last.name, set |-> <<last.fn>>])

\* C28: one emit or emitAsync calls the handlers in a fixed order: those of
\* the exact name in the order of their subscription, then those of '*' in the
\* order of their subscription, then, for each matching pattern in the order in
\* which the patterns entered the Map, its handlers in the order of their
\* subscription.
C28_CallOrder ==
    /\ SubscriptionOrder
    /\ PassEnded =>
          IF last.outcome = "threw" /\ last.err.type = "Error"
          THEN IsPrefixOf(CallOrder, ExpectedOrder(last.name))
          ELSE CallOrder = ExpectedOrder(last.name)

\* A pass has called a handler of '*', then that of the pattern '*a', then
\* that of the pattern 'a*', subscribed after '*a'.
C28_Witness ==
    /\ PassEnded /\ last.outcome # "threw"
    /\ Len(trace) = 3
    /\ trace[1].reg = "star"
    /\ trace[2].key = <<Star, "a">> /\ trace[3].key = <<"a", Star>>

----------------------------------------------------------------------------
(* emit and emitAsync side by side.                                         *)

\* The call that a pass of the host program makes through one registration:
\* handler(data) for an exact name, handler(eventNameStr, data) otherwise; a
\* one-shot closure passes on what its own name asks for.
ExpectedCall(r, e, d) ==
    LET h == IF IsWrapper(r[3]) THEN wrappers[r[3][2]].h ELSE r[3]
        arity == IF IsWrapper(r[3])
                 THEN (IF HasStar(wrappers[r[3][2]].name) THEN 2 ELSE 1)
                 ELSE (IF r[1] = "exact" THEN 1 ELSE 2)
    IN  CallEvent(1, r[1], r[2], r[3], h, arity, IF arity = 2 THEN e ELSE <<>>, d)

ExpectedCalls(e, d) ==
    [i \in 1..Len(ExpectedOrder(e)) |-> ExpectedCall(ExpectedOrder(e)[i], e, d)]

\* The call has failed for want of listeners.
NoListenersVerdict == FailedWith("NoListenersError")

\* C29: emit and emitAsync resolve the handlers in the same way: from the same
\* registries, name and payload, both refuse the name on the same condition,
\* call the same handlers with the same arguments in the same order, and find
\* listeners or not alike; they differ in what they do with what the handlers
\* return and throw.
C29_SameResolution ==
    Returned({"emit", "emitAsync"}) =>
        /\ FailedWith("InvalidEventNameError") <=> (Blank(last.name) \/ HasStar(last.name))
        /\ FailedWith("InvalidEventNameError") => (Failure = NameError(last.op, last.name))
        /\ PassEnded =>
              /\ IF last.op = "emit" /\ last.outcome = "threw" /\ last.err.type = "Error"
                 THEN IsPrefixOf(trace, ExpectedCalls(last.name, last.data))
                 ELSE trace = ExpectedCalls(last.name, last.data)
              /\ NoListenersVerdict <=>
                    (throwOnNoListeners /\ ExpectedCalls(last.name, last.data) = <<>>)

\* emitAsync has called a handler of the exact name and then a handler of '*'
\* and has its promise.
C29_Witness ==
    /\ AsyncEnded /\ PassEnded
    /\ Len(trace) = 2
    /\ trace[1].reg = "exact" /\ trace[2].reg = "star"
    /\ trace[1].arity = 1 /\ trace[2].arity = 2

----------------------------------------------------------------------------
(* Subscribing and unsubscribing while a pass runs.                         *)

\* The handlers have called on and off (the callbacks returned by on run off)
\* and nothing else.
OnlyOnOff ==
    /\ \A i \in 1..Len(trace) : trace[i].ev \in {"call", "on", "off"}
    /\ \E i \in 1..Len(trace) : trace[i].ev \in {"on", "off"}

\* No handler has removed or added this registration during the pass.
Unaffected(r) ==
    \A i \in 1..Len(trace) :
        trace[i].ev \in {"on", "off"} => ~(trace[i].key = r[2] /\ trace[i].fn = r[3])

\* C30: when handlers subscribe and unsubscribe during an emit(e) pass, every
\* handler that matched e when the pass began and was itself neither removed
\* nor added again during the pass is called exactly once by the pass.
\* A pass that a handler's exception has cut short has called it at most once.
C30_UnaffectedCalledOnce ==
    /\ (EmitReturned /\ OnlyOnOff) =>
           \A r \in Registrations(pre) :
               (NameMatches(r[2], last.name) /\ Unaffected(r))
                   => Cardinality(Via(r[1], r[2], r[3])) = 1
    /\ (EmitEnded /\ OnlyOnOff) =>
           \A r \in Registrations(pre) :
               (NameMatches(r[2], last.name) /\ Unaffected(r))
                   => Cardinality(Via(r[1], r[2], r[3])) <= 1

\* A handler has removed itself from a Set while the forEach over that Set was
\* calling it, and the other handler of the Set has been called after that.
C30_Witness ==
    /\ EmitReturned /\ OnlyOnOff
    /\ \E i \in 1..Len(trace), j \in 1..Len(trace) :
          /\ i < j
          /\ trace[i].ev = "off" /\ trace[j].ev = "call" /\ trace[j].lvl = 1
          /\ trace[i].key = trace[j].key /\ trace[i].fn # trace[j].fn
          /\ <<Route(trace[i].key), trace[i].key, trace[i].fn>> \in Registrations(pre)
          /\ \E k \in 1..(i - 1) : trace[k].ev = "call" /\ trace[k].fn = trace[i].fn
                                   /\ trace[k].key = trace[i].key

----------------------------------------------------------------------------
(* Termination of emit.                                                     *)

\* C31: when every handler that is called returns, emit returns, whatever the
\* handlers subscribe and unsubscribe while the pass runs.
C31_EmitReturns == (last.op = "emit" /\ stack # <<>>) ~> (stack = <<>>)

----------------------------------------------------------------------------
(* What emit and emitAsync leave of the registries.                         *)

\* The latest call of the host program was an emit or an emitAsync that has
\* ended, however it ended.
CallEnded ==
    /\ stack = <<>>
    /\ last.op \in {"emit", "emitAsync"}
    /\ last.outcome # "running"

NoOneShotCalled == \A i \in 1..Len(trace) : trace[i].ev = "call" => ~IsWrapper(trace[i].fn)

\* C32: when no handler called in a pass is a one-shot closure and none calls
\* on, off, once or clear, the three registries after an emit or an emitAsync
\* are what they were before it, whether the call returned, threw the exception
\* of a handler, or failed with NoListenersError or InvalidEventNameError.
C32_EmitOnlyReads == (CallEnded /\ NoMutation /\ NoOneShotCalled) => Snapshot = pre

\* An emit has thrown the exception of a handler while a one-shot subscription
\* that it did not call was registered.
C32_Witness ==
    /\ CallEnded /\ NoMutation /\ NoOneShotCalled
    /\ last.outcome = "threw" /\ last.err.type = "Error"
    /\ \E r \in Registrations(pre) : IsWrapper(r[3])

----------------------------------------------------------------------------
(* The callback returned by once.                                           *)

UnsubscribeReturned == stack = <<>> /\ last.op = "unsubscribe" /\ last.outcome = "returned"

\* The callback has removed the registration of its closure and nothing else;
\* called after the closure has fired, it has changed nothing.
UnsubscribeRemovesClosure ==
    UnsubscribeReturned =>
        /\ last.fn \notin RegisteredFns
        /\ Registrations(Fields) =
              Registrations(pre) \ {<<Route(last.name), last.name, last.fn>>}
        /\ wrappers[last.fn[2]].fired >= 1 => Snapshot = pre

\* A closure that is not registered is not registered again, and does not call
\* its handler.
GoneForGood ==
    \A k \in 1..Len(wrappers) :
        Wrapper(k) \notin RegisteredFns =>
            /\ Wrapper(k) \notin RegisteredFns'
            /\ wrappers'[k].fired = wrappers[k].fired

\* C33: the callback returned by once(n, h) removes the one-shot closure:
\* called before any matching emission, it removes the registration, and no
\* later emit or emitAsync calls h through it; called after the closure has
\* fired, it changes nothing.
C33_OnceCallback == [](UnsubscribeRemovesClosure) /\ [][GoneForGood]_vars

\* After the callback has removed a closure that had not fired, an emission of
\* a matching name has called another handler and not the closure's.
C33_Witness ==
    /\ PassEnded
    /\ trace # <<>>
    /\ \E k \in 1..Len(wrappers) :
          /\ wrappers[k].fired = 0 /\ ~wrappers[k].offed
          /\ Wrapper(k) \notin RegisteredFns
          /\ NameMatches(wrappers[k].name, last.name)

----------------------------------------------------------------------------
(* Subscribing the same handler twice.                                      *)

NoRepeats(list) ==
    \A i \in 1..Len(list) : \A j \in 1..Len(list) :
        (i # j /\ list[i] # Tomb) => list[i] # list[j]

TheRegistration == <<Route(last.name), last.name, last.fn>>

\* C34: subscriptions are sets of handlers: on(n, h) for a handler that is
\* registered under n changes nothing, an emit calls h once through n, and one
\* off(n, h) removes the registration.
C34_SetOfHandlers ==
    /\ \A k \in DOMAIN handlers : NoRepeats(handlers[k])
    /\ NoRepeats(starHandlers)
    /\ \A i \in 1..Len(wildcardHandlers) : NoRepeats(wildcardHandlers[i].set)
    /\ (stack = <<>> /\ last.op = "on" /\ TheRegistration \in Registrations(pre))
           => Snapshot = pre
    /\ EmitEnded => \A r \in Registrations(pre) : Cardinality(Via(r[1], r[2], r[3])) <= 1
    /\ EmitReturned =>
           \A r \in Registrations(pre) :
               NameMatches(r[2], last.name) => Cardinality(Via(r[1], r[2], r[3])) = 1
    /\ (stack = <<>> /\ last.op = "off" /\ last.outcome = "returned")
           => TheRegistration \notin Registrations(Fields)

\* on has been called with a name and a handler that were registered, next to
\* another handler of the same name.
C34_Witness ==
    /\ stack = <<>> /\ last.op = "on" /\ last.outcome = "returned"
    /\ TheRegistration \in Registrations(pre)
    /\ \E r \in Registrations(pre) : r[2] = last.name /\ r[3] # last.fn

----------------------------------------------------------------------------
(* once called twice with the same handler.                                 *)

\* Every call of once has added one registration, of a closure of its own, and
\* every callback has removed the registration of its closure and no other.
OwnClosures ==
    /\ (stack = <<>> /\ last.op = "once" /\ last.outcome = "returned")
           => /\ <<Route(last.name), last.name, Wrapper(Len(wrappers))>> \notin Registrations(pre)
              /\ Registrations(Fields) = Registrations(pre)
                     \cup {<<Route(last.name), last.name, Wrapper(Len(wrappers))>>}
    /\ UnsubscribeReturned =>
           Registrations(Fields) =
               Registrations(pre) \ {<<Route(last.name), last.name, last.fn>>}

BothDone(k) == FiredOnceIn(k) /\ Wrapper(k) \notin RegisteredFns

\* C35, as stated: once(n, h) called twice with the same handler makes two
\* independent one-shot registrations; the first matching emission calls h
\* twice and removes both, and each callback cancels only its own.
C35_Original ==
    /\ OwnClosures
    /\ PassEnded => \A k \in 1..Len(wrappers) : DueAtStart(k) => BothDone(k)

\* C35, amended: the same, the emission that calls h twice being the first
\* matching one that is not ended by the exception of a handler called before.
C35_TwoOneShots ==
    /\ OwnClosures
    /\ PassEndedNormally => \A k \in 1..Len(wrappers) : DueAtStart(k) => BothDone(k)

\* One emission has called the handler twice, through the two closures that two
\* calls of once had registered under the same name.
C35_Witness ==
    /\ PassEndedNormally
    /\ Len(wrappers) = 2
    /\ wrappers[1].name = wrappers[2].name /\ wrappers[1].h = wrappers[2].h
    /\ DueAtStart(1) /\ DueAtStart(2)
    /\ BothDone(1) /\ BothDone(2)
    /\ Cardinality({i \in CallsIn(1) : trace[i].h = wrappers[1].h}) = 2

----------------------------------------------------------------------------
(* Unsubscribing during a pass.                                             *)

InPass == last.op \in {"emit", "emitAsync"}

\* The call at position j of the record was made through the registration of
\* handler f under name n.
CallThrough(j, n, f) ==
    /\ trace[j].ev = "call"
    /\ trace[j].reg = Route(n) /\ trace[j].key = n /\ trace[j].fn = f

\* The name under which the Set that the forEach of frame F iterates was
\* registered.
LoopKey(F) ==
    IF F.pc = "exactIter" THEN F.name
    ELSE IF F.pc = "starIter" THEN <<Star>> ELSE F.pat

\* The handlers that the forEach of frame F has still to call.
LeftIn(F) ==
    LET list == CurrentList(Fields, F)
    IN  {list[j] : j \in {k \in (F.idx + 1)..Len(list) : list[k] # Tomb}}

\* After the off recorded at position i the pass does not call the handler
\* through that registration, and the handler is not among those that the
\* running forEach has still to call.
OffTakesEffect(i) ==
    /\ \A j \in (i + 1)..Len(trace) : ~CallThrough(j, trace[i].key, trace[i].fn)
    /\ (stack # <<>> /\ InIter(stack[1]) /\ LoopKey(stack[1]) = trace[i].key) =>
           trace[i].fn \notin LeftIn(stack[1])

\* C36, as stated: once a running handler has called off(n, h), or the
\* callback that on(n, h) returned, during emit(e) or emitAsync(e), the pass
\* does not call h through its registration under n.
C36_Original ==
    InPass => \A i \in 1..Len(trace) : trace[i].ev = "off" => OffTakesEffect(i)

\* A clear recorded before position i had removed the registrations under
\* the name of the off recorded at i.
ClearedBefore(i) ==
    \E c \in 1..(i - 1) :
        \/ trace[c].ev = "clearAll"
        \/ trace[c].ev = "clear" /\ trace[c].key = trace[i].key

\* C36, amended: the same, unless a clear called earlier in the pass had
\* already removed the registration: off then finds nothing to remove, and
\* the forEach that runs over the Set that clear dropped still calls h.
C36_RemovalAtOnce ==
    InPass =>
        \A i \in 1..Len(trace) :
            (trace[i].ev = "off" /\ ~ClearedBefore(i)) => OffTakesEffect(i)

\* A handler has unsubscribed a handler that matched the emitted name and had
\* not been called, and the pass has gone on to call another handler and has
\* ended without calling the one unsubscribed.
C36_Witness ==
    /\ PassEnded
    /\ \E i \in 1..Len(trace) :
          /\ trace[i].ev = "off"
          /\ <<Route(trace[i].key), trace[i].key, trace[i].fn>> \in Registrations(pre)
          /\ NameMatches(trace[i].key, last.name)
          /\ \A j \in 1..Len(trace) : ~CallThrough(j, trace[i].key, trace[i].fn)
          /\ \E j \in (i + 1)..Len(trace) : trace[j].ev = "call"

----------------------------------------------------------------------------
(* clear during a pass.                                                     *)

ClearAt(i) == trace[i].ev \in {"clear", "clearAll"}

\* The call at position j was made through a registration that the clear at
\* position i removed.
Cleared(i, j) ==
    /\ trace[j].ev = "call"
    /\ \/ trace[i].ev = "clearAll"
       \/ trace[j].reg = Route(trace[i].key) /\ trace[j].key = trace[i].key

\* The call of the handler that was running when the event at position i
\* happened.
RunningAt(i) ==
    CHOOSE c \in 1..i : /\ c < i /\ trace[c].ev = "call"
                        /\ \A d \in (c + 1)..(i - 1) : trace[d].ev # "call"

\* The registrations that a clear has removed are not registered, and a pass
\* calls registered handlers only: no later emission calls them.
ClearedForLater ==
    /\ \A i \in 1..Len(trace) :
          ClearAt(i) =>
              \A r \in Registrations(Fields) :
                  /\ trace[i].ev # "clearAll"
                  /\ ~(r[1] = Route(trace[i].key) /\ r[2] = trace[i].key)
    /\ \A j \in 1..Len(trace) :
          trace[j].ev = "call" =>
              <<trace[j].reg, trace[j].key, trace[j].fn>> \in Registrations(pre)

OnlyClears ==
    \A i \in 1..Len(trace) : trace[i].ev = "call" \/ ClearAt(i)

----------------------------------------------------------------------------
(* emitAsync calls every handler before it returns.                         *)

\* The place of a call in the order that the registries at the beginning of the
\* call give, or 0.
PlaceOf(i) ==
    LET order == ExpectedOrder(last.name)
        at == {p \in 1..Len(order) : order[p] = CallOrder[i]}
    IN  IF at = {} THEN 0 ELSE CHOOSE p \in at : TRUE

\* The calls made by the pass itself follow that order.
InResolutionOrder ==
    /\ \A i \in CallsIn(1) : PlaceOf(i) # 0
    /\ \A i \in CallsIn(1) : \A j \in CallsIn(1) : i < j => PlaceOf(i) < PlaceOf(j)

\* After emitAsync has returned, the settling of a promise calls no handler.
NoCallAfterReturn ==
    (stack = <<>> /\ last.op = "emitAsync" /\ pending' # pending) =>
        /\ stack' = <<>> /\ trace' = trace
        /\ \A k \in 1..Len(wrappers) : wrappers'[k].fired = wrappers[k].fired

\* C38: when emitAsync(e, p) hands its promise back, every handler that
\* matched has been called, in the order of resolution, whether the promise is
\* settled or not; the settling of the promises afterwards calls no handler.
C38_AllStartedBeforeReturn ==
    /\ []((AsyncEnded /\ PassEnded) => (AllMatchedCalled /\ InResolutionOrder))
    /\ [][NoCallAfterReturn]_vars

\* emitAsync has returned a promise that is pending, after calling two
\* handlers, one of which returned a promise that is pending.
C38_Witness ==
    /\ AsyncEnded /\ PassEnded
    /\ ThisJoin.state = "pending"
    /\ Cardinality(CallsIn(1)) = 2
    /\ AllMatchedCalled

\* The promises of the last emitAsync that have failed.
FailedUnits ==
    {u \in 1..Len(ThisJoin.units) : ThisJoin.units[u].st \in {"rejected", "late"}}

\* The handlers that had failed when Promise.all was called: they threw, or
\* returned a promise that was rejected already.
FailedAtJoin == {u \in FailedUnits : ThisJoin.units[u].id = 0}

\* The promises that were rejected when Promise.all was called.
RejectedAtJoin == {u \in FailedAtJoin : ThisJoin.units[u].st = "rejected"}

LateUnits == {u \in FailedAtJoin : ThisJoin.units[u].st = "late"}

Earliest(S) == CHOOSE i \in S : \A j \in S : i <= j

SeveralFailed == AsyncEnded /\ Cardinality(FailedUnits) >= 2

FirstFailureStays ==
    \A i \in 1..Len(joins) :
        /\ (pending' # pending /\ joins[i].state = "rejected") =>
               (joins'[i].state = "rejected" /\ joins'[i].err = joins[i].err)
        /\ (pending' # pending /\ joins[i].state = "pending"
                /\ joins'[i].state = "rejected") =>
               \E u \in 1..Len(joins[i].units) :
                   /\ joins[i].units[u].st = "pending"
                   /\ joins'[i].units[u].st = "rejected"
                   /\ joins'[i].err = joins'[i].units[u].err

JoinTakesFirstRejection ==
    SeveralFailed =>
        /\ ThisJoin.state = "rejected"
        /\ ThisJoin.err \in {ThisJoin.units[u].err : u \in FailedUnits}
        /\ RejectedAtJoin # {} =>
               ThisJoin.err = ThisJoin.units[Earliest(RejectedAtJoin)].err
        /\ (RejectedAtJoin = {} /\ LateUnits # {}) =>
               ThisJoin.err = ThisJoin.units[Earliest(LateUnits)].err

====
